---------------------------- MODULE Spec2Model ----------------------------
(***************************************************************************)
(* A model of the boat-ride client: the Map screen's route-scoring         *)
(* workflow, the REST client (authFetch and the functions built on it),    *)
(* the focus-driven loads of the Profile and Saved Routes screens, and the *)
(* pure helpers (haversine distance, score-to-colour, gradient segments).  *)
(*                                                                         *)
(* Numbers.  JavaScript doubles are modelled in fixed point:               *)
(*   - coordinates are whole degrees;                                      *)
(*   - trigonometry works on values scaled by TrigScale (4 decimals);      *)
(*   - distances are tenths of a mile / nautical mile;                     *)
(*   - scores, hues and interpolation parameters are scaled by FP, which   *)
(*     makes step/8, the midpoints and (s/100)*120 exact.                  *)
(* A JavaScript null is the empty tuple, a present value x is <<x>>.       *)
(***************************************************************************)
EXTENDS Integers, Sequences, FiniteSets, TLC

\* ------------------------------------------------------------------ bounds
MaxPoints == 3
MaxScores == 2
MaxRequests == 2
MaxCalls == 1
MaxLoads == 3
MaxSegScores == 3
MaxColorScore == 105
MaxPending == 1
MaxAccountOps == 2

\* --------------------------------------------------------------- variables
VARIABLES
    \* MapScreen view-state (MapScreen.tsx 107-115)
    points, startTime, speedMph, scores, selectedScore, loading,
    showTimes, showFeedback,
    \* the alert last shown by showAlert, and a bit flipped by every showAlert
    lastAlert, alertTick,
    \* /score-route calls awaiting their response, and how many were issued
    scoreReqs, reqCount,
    \* what the network answered to each /score-route call: <<id, status>>
    scoreDone,
    \* supabase's current session, the API-client calls in flight, how many they
    \* are, and the call that settled last
    session, apiCalls, apiCount, apiDone,
    \* the focused tab, ProfileScreen and SavedRoutesScreen view-state, the loads
    \* their focus effects have under way, how many were started, and what became
    \* of each load
    focused, profile, profLoading, routes, routesLoading, netOps, opCount, opLog,
    \* a helper function's arguments and, once it was applied, its result
    fnIn, fnOut,
    \* MapScreen's boat (MapScreen.tsx 107, 134-137) and the boat picked last
    currentBoat, showBoatModal, boatList, boatPresets, boatsLoading, pickedBoat,
    \* the getBoats / getBoatPresets pairs awaited by Promise.allSettled
    boatLoads,
    \* ProfileScreen's saving and deleting flags (ProfileScreen.tsx 42-43), whether
    \* the delete confirmation is open, the account calls in flight, how many
    \* were started, what became of each, how often signOut was called, and
    \* whether the server has deleted the account
    saving, deleting, deleteConfirm, acctOps, acctCount, acctLog, signOutCalls,
    accountDeleted,
    \* BoatListScreen view-state (BoatListScreen.tsx 78-82)
    myBoats, presets, boatListLoading, refreshing, addingId,
    \* BoatSetupScreen's lists and loading flag (BoatSetupScreen.tsx 23-26)
    setupBoats, setupPresets, setupLoading,
    \* the open showConfirm dialog, the deleteRoute / deleteBoat / createBoat calls
    \* in flight, and how the call that settled last ended
    confirmDlg, listOps, listDone,
    \* MapScreen's route parameter, its location state (MapScreen.tsx 138-155), the
    \* requests of its mount effects still under way, and RouteMap's hasAnimated
    \* ref with the region the map was last moved to and how often it was moved
    loadRoute, userLocation, locationRegion, homeRegion, mountOps, hasAnimated,
    mapView, animations,
    \* the reports shown, the centres of the getNearbyReports calls in flight,
    \* how the last of them ended, and the report modal (MapScreen.tsx 128-131)
    \* with the handleCreateReport call under way
    reports, reportReqs, reportsSettled, showReportModal, creatingReport, reportOp,
    \* TimePicker's showPicker (TimePicker.tsx 70), DateTimePickerModal's state
    \* (DateTimePickerModal.tsx 329-333), the Date onConfirm was last called with
    \* and a bit flipped by every call of onConfirm
    showPicker, selectedDate, hour, minute, lastConfirm, confirmTick

mapVars == <<points, startTime, speedMph, scores, selectedScore, loading,
             showTimes, showFeedback, lastAlert, alertTick, scoreReqs, reqCount,
             scoreDone>>
apiVars == <<session, apiCalls, apiCount, apiDone>>
focusVars == <<focused, profile, profLoading, routes, routesLoading, netOps, opCount,
               opLog>>
fnVars == <<fnIn, fnOut>>
\* mapVars without the alert
mapOther == <<points, startTime, speedMph, scores, selectedScore, loading, showTimes,
              showFeedback, scoreReqs, reqCount, scoreDone>>
boatVars == <<currentBoat, showBoatModal, boatList, boatPresets, boatsLoading,
              pickedBoat, boatLoads>>
accountVars == <<saving, deleting, deleteConfirm, acctOps, acctCount, acctLog,
                 signOutCalls, accountDeleted>>
boatListVars == <<myBoats, presets, boatListLoading, refreshing, addingId>>
setupVars == <<setupBoats, setupPresets, setupLoading>>
listOpVars == <<confirmDlg, listOps, listDone>>
mountVars == <<loadRoute, userLocation, locationRegion, homeRegion, mountOps,
               hasAnimated, mapView, animations>>
reportVars == <<reports, reportReqs, reportsSettled, showReportModal, creatingReport,
                reportOp>>
pickerVars == <<showPicker, selectedDate, hour, minute, lastConfirm, confirmTick>>
screenVars == <<boatVars, accountVars, boatListVars, setupVars, listOpVars, mountVars,
                reportVars, pickerVars>>
\* the screens' state other than one screen's own
besidesBoat == <<accountVars, boatListVars, setupVars, listOpVars, mountVars, reportVars, pickerVars>>
besidesAccount == <<boatVars, boatListVars, setupVars, listOpVars, mountVars, reportVars, pickerVars>>
besidesLoads == <<accountVars, listOpVars, mountVars, reportVars, pickerVars>>
besidesMount == <<boatVars, accountVars, boatListVars, setupVars, listOpVars, pickerVars>>
besidesPicker == <<boatVars, accountVars, boatListVars, setupVars, listOpVars, mountVars,
                   reportVars>>
besidesLists == <<boatVars, accountVars, setupVars, mountVars, reportVars, pickerVars>>

vars == <<mapVars, apiVars, focusVars, fnVars, screenVars>>

Null == <<>>
Some(x) == <<x>>

Max(a, b) == IF a >= b THEN a ELSE b
Min(a, b) == IF a <= b THEN a ELSE b
Abs(x) == IF x < 0 THEN -x ELSE x

\* Math.floor of the rational n/d, d > 0 (\div already rounds toward minus infinity)
Floor(n, d) == n \div d

\* ===================================================================== geo
TrigScale == 100 * 100

\* Math.sin(toRad(x)) for x = k half-degrees, 0 <= k <= 180, times TrigScale
SinTable ==
  << 0, 87, 175, 262, 349, 436, 523, 610, 698, 785, 872, 958,
     1045, 1132, 1219, 1305, 1392, 1478, 1564, 1650, 1736, 1822, 1908, 1994,
     2079, 2164, 2250, 2334, 2419, 2504, 2588, 2672, 2756, 2840, 2924, 3007,
     3090, 3173, 3256, 3338, 3420, 3502, 3584, 3665, 3746, 3827, 3907, 3987,
     4067, 4147, 4226, 4305, 4384, 4462, 4540, 4617, 4695, 4772, 4848, 4924,
     5000, 5075, 5150, 5225, 5299, 5373, 5446, 5519, 5592, 5664, 5736, 5807,
     5878, 5948, 6018, 6088, 6157, 6225, 6293, 6361, 6428, 6494, 6561, 6626,
     6691, 6756, 6820, 6884, 6947, 7009, 7071, 7133, 7193, 7254, 7314, 7373,
     7431, 7490, 7547, 7604, 7660, 7716, 7771, 7826, 7880, 7934, 7986, 8039,
     8090, 8141, 8192, 8241, 8290, 8339, 8387, 8434, 8480, 8526, 8572, 8616,
     8660, 8704, 8746, 8788, 8829, 8870, 8910, 8949, 8988, 9026, 9063, 9100,
     9135, 9171, 9205, 9239, 9272, 9304, 9336, 9367, 9397, 9426, 9455, 9483,
     9511, 9537, 9563, 9588, 9613, 9636, 9659, 9681, 9703, 9724, 9744, 9763,
     9781, 9799, 9816, 9833, 9848, 9863, 9877, 9890, 9903, 9914, 9925, 9936,
     9945, 9954, 9962, 9969, 9976, 9981, 9986, 9990, 9994, 9997, 9998, 10000,
     10000 >>

\* sine of k half-degrees, -360 <= k <= 360: odd, and sin(180 deg - x) = sin x
SinHalfDeg(k) ==
    LET m == Abs(k)
        v == IF m <= 180 THEN SinTable[m + 1] ELSE SinTable[(360 - m) + 1]
    IN  IF k < 0 THEN -v ELSE v

\* Math.sin(toRad(deg) / 2): half of deg degrees is deg half-degrees
SinOfHalf(deg) == SinHalfDeg(deg)

\* Math.cos(toRad(deg)) = sin(90 deg - deg), -90 <= deg <= 90
CosDeg(deg) == SinHalfDeg(180 - 2 * deg)

\* Math.sqrt on a value scaled by TrigScale^2, result scaled by TrigScale
RECURSIVE SqrtSearch(_, _, _)
SqrtSearch(h, lo, hi) ==
    IF lo >= hi THEN lo
    ELSE LET mid == (lo + hi + 1) \div 2
         IN  IF mid * mid <= h THEN SqrtSearch(h, mid, hi)
             ELSE SqrtSearch(h, lo, mid - 1)

Sqrt(h) == SqrtSearch(h, 0, 2 * TrigScale)

\* Math.asin of x / TrigScale, 0 <= x <= TrigScale, in radians times TrigScale:
\* the table read backwards, linear between two entries
RECURSIVE AsinSearch(_, _, _)
AsinSearch(x, lo, hi) ==
    IF lo >= hi THEN lo
    ELSE LET mid == (lo + hi + 1) \div 2
         IN  IF SinTable[mid + 1] <= x THEN AsinSearch(x, mid, hi)
             ELSE AsinSearch(x, lo, mid - 1)

Asin(x) ==
    LET k == AsinSearch(x, 0, 180)
        frac == IF k = 180 \/ SinTable[k + 2] = SinTable[k + 1] THEN 0
                ELSE (100 * (x - SinTable[k + 1])) \div (SinTable[k + 2] - SinTable[k + 1])
        centiHalfDeg == 100 * k + frac
    IN  (centiHalfDeg * 8727) \div (100 * 100)

\* a product of scaled values brought back to scale; like the rounding of a
\* floating-point product, it is the same for x and -x
Quot(x, d) == IF x >= 0 THEN x \div d ELSE -((-x) \div d)

\* geo.ts:3, in tenths of a nautical mile
EARTH_RADIUS_NM == 34401
\* geo.ts:4, in thousandths
NM_TO_STATUTE == 1151

\* haversineNm(a, b): tenths of a nautical mile
haversineNm_asym(a, b) ==
    LET sinLat == SinOfHalf(b.lat - a.lat)
        sinLon == SinOfHalf(b.lon - a.lon)
        h == sinLat * sinLat
             + Quot(Quot(CosDeg(a.lat) * CosDeg(a.lat), TrigScale) * sinLon, TrigScale)
                  * sinLon
    IN  (2 * EARTH_RADIUS_NM * Asin(Sqrt(h))) \div TrigScale

haversineNm(a, b) ==
    LET sinLat == SinOfHalf(b.lat - a.lat)
        sinLon == SinOfHalf(b.lon - a.lon)
        h == sinLat * sinLat
             + Quot(Quot(CosDeg(a.lat) * CosDeg(b.lat), TrigScale) * sinLon, TrigScale)
                  * sinLon
    IN  (2 * EARTH_RADIUS_NM * Asin(Sqrt(h))) \div TrigScale

\* routeDistanceMiles(points): tenths of a statute mile
RECURSIVE routeTotalNm(_, _)
routeTotalNm(pts, i) ==
    IF i > Len(pts) THEN 0
    ELSE haversineNm(pts[i - 1], pts[i]) + routeTotalNm(pts, i + 1)

routeDistanceMiles(pts) == (routeTotalNm(pts, 2) * NM_TO_STATUTE) \div 1000


\* =============================================================== MapScreen
\* the places the map can be tapped at, and the saved route the screen may be
\* opened with (route.params.loadRoute)
PA == [lat |-> 30, lon |-> -89]
PB == [lat |-> 30, lon |-> -88]
TapPoints == {PA, PB}
LoadRoutes == {<<>>, <<PA, PB>>}

\* "YYYY-MM-DD HH:MM" as <<day, hour, minute>>; the empty string is <<>>
EmptyTime == <<>>
T0 == <<0, 8, 0>>
StartTimes == {EmptyTime, T0}
\* speeds the speed field can hold: parseFloat results >= 0, or 0 for ""
Speeds == {0, 30, 120}

NoAlert == <<"", "">>

\* a response of the backend to POST /score-route
ScoreOuts ==
    { [lat |-> 30, lon |-> -89, score_0_100 |-> 20],
      [lat |-> 30, lon |-> -88, score_0_100 |-> 90] }
ScoreLists == UNION { [1..n -> ScoreOuts] : n \in 0..MaxScores }

\* what a promise of the API client settles to
Fulfilled(v) == [status |-> "fulfilled", value |-> v]
Rejected(msg) == [status |-> "rejected", message |-> msg]
ScoreRouteOutcomes ==
    { Fulfilled([scores |-> sc]) : sc \in ScoreLists }
      \cup { Rejected("API 500: Internal Server Error"), Rejected("Network request failed") }

\* addHours(timeStr, hours), hours = n / d
addHours(timeStr, n, d) ==
    IF Len(timeStr) = 0 THEN timeStr
    ELSE LET total == timeStr[2] * 60 + timeStr[3] + Floor(60 * n, d)
         IN  <<timeStr[1] + (total \div 1440), (total % 1440) \div 60, total % 60>>

\* the sampling interval handleScore derives (MapScreen.tsx 260-269)
sampleMinutes_noLowerClamp(pts, mph) ==
    LET dist == routeDistanceMiles(pts)
        segments == Len(pts) - 1
    IN  Min(60, Floor(60 * dist, 10 * mph * segments))

sampleMinutes(pts, mph) ==
    LET dist == routeDistanceMiles(pts)
        segments == Len(pts) - 1
    IN  Max(1, Min(60, Floor(60 * dist, 10 * mph * segments)))

\* the three early returns of handleScore: the alert to show, or "" to go on
scoreValidation_noDeparture(pts, st, mph) ==
    IF Len(pts) < 2 THEN "Need at least 2 points"
    ELSE IF mph <= 0 THEN "Set speed"
    ELSE ""

scoreValidation(pts, st, mph) ==
    IF Len(pts) < 2 THEN "Need at least 2 points"
    ELSE IF Len(st) = 0 THEN "Set departure"
    ELSE IF mph <= 0 THEN "Set speed"
    ELSE ""

validationMessage(title) ==
    CASE title = "Need at least 2 points" -> "Tap the map to add route points."
      [] title = "Set departure" -> "Enter a departure time for the trip."
      [] OTHER -> "Enter a speed greater than 0."

showAlert(title, msg) ==
    /\ lastAlert' = <<title, msg>>
    /\ alertTick' = 1 - alertTick

scoreRouteRequest(pts, st, mph, boat) ==
    [ route |-> pts,
      boat |-> boat,
      start_time |-> st,
      end_time |-> addHours(st, routeDistanceMiles(pts), 10 * mph),
      sample_every_minutes |-> sampleMinutes(pts, mph) ]

\* render conditions (MapScreen.tsx 392, 430, 509, 521; ScoreCard 30)
canScore == Len(points) >= 2 /\ Len(startTime) > 0 /\ speedMph > 0 /\ ~loading
scoreBarShown == Len(scores) = 0 /\ ~showFeedback
scoreCardShown == ~showFeedback /\ Len(scores) > 0
feedbackShown == showFeedback /\ Len(scores) > 0

InitMap ==
    /\ points \in LoadRoutes
    /\ startTime = T0
    /\ speedMph = 30
    /\ scores = <<>>
    /\ selectedScore = Null
    /\ loading = FALSE
    /\ showTimes = FALSE
    /\ showFeedback = FALSE
    /\ lastAlert = NoAlert
    /\ alertTick = 0
    /\ scoreReqs = {}
    /\ reqCount = 0
    /\ scoreDone = {}

\* handleAddPoint, handleUndo and handleClear: what they set (MapScreen.tsx 226-243)
addPoint(p) ==
    /\ Len(points) < MaxPoints
    /\ points' = Append(points, p)
    /\ scores' = <<>>
    /\ selectedScore' = Null
    /\ showFeedback' = FALSE
    /\ UNCHANGED <<startTime, speedMph, loading, showTimes, lastAlert, alertTick,
                   scoreReqs, reqCount, scoreDone>>

undoPoint ==
    /\ Len(points) > 0
    /\ points' = SubSeq(points, 1, Len(points) - 1)
    /\ scores' = <<>>
    /\ selectedScore' = Null
    /\ UNCHANGED <<startTime, speedMph, loading, showTimes, showFeedback, lastAlert,
                   alertTick, scoreReqs, reqCount, scoreDone>>

clearPoints ==
    /\ Len(points) > 0
    /\ points' = <<>>
    /\ scores' = <<>>
    /\ selectedScore' = Null
    /\ showFeedback' = FALSE
    /\ UNCHANGED <<startTime, speedMph, loading, showTimes, lastAlert, alertTick,
                   scoreReqs, reqCount, scoreDone>>

handleAddPoint(p) ==
    /\ addPoint(p)
    /\ UNCHANGED <<apiVars, focusVars, fnVars, screenVars>>

\* the Undo and Clear buttons are rendered while points.length > 0
handleUndo ==
    /\ undoPoint
    /\ UNCHANGED <<apiVars, focusVars, fnVars, screenVars>>

handleClear ==
    /\ clearPoints
    /\ UNCHANGED <<apiVars, focusVars, fnVars, screenVars>>

\* the Times toggle lives in the score bar
toggleShowTimes ==
    /\ scoreBarShown
    /\ showTimes' = ~showTimes
    /\ UNCHANGED <<points, startTime, speedMph, scores, selectedScore, loading,
                   showFeedback, lastAlert, alertTick, scoreReqs, reqCount, scoreDone, apiVars, focusVars, fnVars, screenVars>>

\* TimePicker's onStartChange and onSpeedChange; the picker is rendered while showTimes
setStartTime(v) ==
    /\ showTimes
    /\ startTime' = v
    /\ UNCHANGED <<points, speedMph, scores, selectedScore, loading, showTimes,
                   showFeedback, lastAlert, alertTick, scoreReqs, reqCount, scoreDone, apiVars, focusVars, fnVars, screenVars>>

setSpeedMph(v) ==
    /\ showTimes
    /\ speedMph' = v
    /\ UNCHANGED <<points, startTime, scores, selectedScore, loading, showTimes,
                   showFeedback, lastAlert, alertTick, scoreReqs, reqCount, scoreDone, apiVars, focusVars, fnVars, screenVars>>

\* handleScore up to its await: validation, the derived request, the state reset
handleScore ==
    LET alert == scoreValidation(points, startTime, speedMph)
    IN  IF alert # ""
        THEN /\ showAlert(alert, validationMessage(alert))
             /\ UNCHANGED <<points, startTime, speedMph, scores, selectedScore, loading,
                            showTimes, showFeedback, scoreReqs, reqCount, scoreDone, apiVars, focusVars, fnVars, screenVars>>
        ELSE /\ reqCount < MaxRequests
             /\ reqCount' = reqCount + 1
             /\ scoreReqs' = scoreReqs \cup
                    { [id |-> reqCount + 1,
                       body |-> scoreRouteRequest(points, startTime, speedMph, currentBoat),
                       speedMph |-> speedMph] }
             /\ loading' = TRUE
             /\ scores' = <<>>
             /\ selectedScore' = Null
             /\ showFeedback' = FALSE
             /\ UNCHANGED <<points, startTime, speedMph, showTimes, lastAlert, alertTick,
                            scoreDone, apiVars, focusVars, fnVars, screenVars>>

\* the Score button: in the score bar (under the boat picker's Modal while that
\* is visible), disabled unless canScore
pressScore ==
    /\ scoreBarShown
    /\ ~showBoatModal
    /\ canScore
    /\ handleScore

\* handleScore after its await, scoreRoute fulfilled (MapScreen.tsx 288-290, 294)
handleScoreFulfilled(r, res) ==
    /\ scoreReqs' = scoreReqs \ {r}
    /\ scores' = res.scores
    /\ selectedScore' = IF Len(res.scores) > 0 THEN Some(0) ELSE selectedScore
    /\ loading' = FALSE
    /\ UNCHANGED <<points, startTime, speedMph, showTimes, showFeedback, lastAlert,
                   alertTick, reqCount, apiVars, focusVars, fnVars, screenVars>>

\* handleScore after its await, scoreRoute rejected (MapScreen.tsx 291-295)
handleScoreRejected_noFinally(r, message) ==
    /\ scoreReqs' = scoreReqs \ {r}
    /\ showAlert("Scoring failed", message)
    /\ UNCHANGED <<points, startTime, speedMph, scores, selectedScore, showTimes,
                   showFeedback, reqCount, loading, apiVars, focusVars, fnVars, screenVars>>

handleScoreRejected(r, message) ==
    /\ scoreReqs' = scoreReqs \ {r}
    /\ showAlert("Scoring failed", message)
    /\ loading' = FALSE
    /\ UNCHANGED <<points, startTime, speedMph, scores, selectedScore, showTimes,
                   showFeedback, reqCount, apiVars, focusVars, fnVars, screenVars>>

scoreRouteSettles ==
    \E r \in scoreReqs : \E o \in ScoreRouteOutcomes :
        /\ scoreDone' = scoreDone \cup {<<r.id, o.status>>}
        /\ IF o.status = "fulfilled"
           THEN handleScoreFulfilled(r, o.value)
           ELSE handleScoreRejected(r, o.message)

\* ScoreCard: tapping a time chip, and the X button
selectScore(i) ==
    /\ scoreCardShown
    /\ i \in 0..(Len(scores) - 1)
    /\ selectedScore' = Some(i)
    /\ UNCHANGED <<points, startTime, speedMph, scores, loading, showTimes, showFeedback,
                   lastAlert, alertTick, scoreReqs, reqCount, scoreDone, apiVars, focusVars, fnVars, screenVars>>

dismissScoreCard ==
    /\ scoreCardShown
    /\ showFeedback' = TRUE
    /\ UNCHANGED <<points, startTime, speedMph, scores, selectedScore, loading, showTimes,
                   lastAlert, alertTick, scoreReqs, reqCount, scoreDone, apiVars, focusVars, fnVars, screenVars>>

\* FeedbackPrompt's onDismiss
dismissFeedback ==
    /\ feedbackShown
    /\ showFeedback' = FALSE
    /\ scores' = <<>>
    /\ selectedScore' = Null
    /\ UNCHANGED <<points, startTime, speedMph, loading, showTimes, lastAlert, alertTick,
                   scoreReqs, reqCount, scoreDone, apiVars, focusVars, fnVars, screenVars>>

\* ================================================================== render
FP == 16 * 100

\* x * y and x / y on values scaled by FP
FPMul(x, y) == (x * y) \div FP
FPDiv(x, y) == (x * FP) \div y

\* scoreToColor of the native map (part_006 171-177); score and hue scaled by FP.
\* `hsl(${hue}, 85%, 48%)` is the tuple of its fields.
scoreToColor_noClamp(score) ==
    LET hue == FPMul(FPDiv(score, 100 * FP), 120 * FP)
    IN  <<"hsl", hue, 85, 48>>

scoreToColor(score) ==
    LET s == Max(0, Min(100 * FP, score))
        hue == FPMul(FPDiv(s, 100 * FP), 120 * FP)
    IN  <<"hsl", hue, 85, 48>>

\* scoreToColor of the web map (RouteMap.web.tsx 202-207)
scoreToColorWeb(score) ==
    LET s == Max(0, Min(100 * FP, score))
        hue == FPMul(FPDiv(s, 100 * FP), 120 * FP)
    IN  <<"hsl", hue, 85, 48>>

\* scoreToColor of the score card (part_004 11-15)
scoreToColorCard(score) ==
    LET s == Max(0, Min(100 * FP, score))
        hue == FPMul(FPDiv(s, 100 * FP), 120 * FP)
    IN  <<"hsl", hue, 85, 48>>

GRADIENT_STEPS == 8

\* one sub-segment of buildScoreSegments: scores a and b, step 0..GRADIENT_STEPS-1;
\* coordinates, scores and t are scaled by FP
subSegment_startColor(a, b, step) ==
    LET t0 == FPDiv(step * FP, GRADIENT_STEPS * FP)
        t1 == FPDiv((step + 1) * FP, GRADIENT_STEPS * FP)
        scoreStart == a.score_0_100 * FP + FPMul((b.score_0_100 - a.score_0_100) * FP, t0)
    IN  [ coords |->
            << [ latitude |-> a.lat * FP + FPMul((b.lat - a.lat) * FP, t0),
                 longitude |-> a.lon * FP + FPMul((b.lon - a.lon) * FP, t0) ],
               [ latitude |-> a.lat * FP + FPMul((b.lat - a.lat) * FP, t1),
                 longitude |-> a.lon * FP + FPMul((b.lon - a.lon) * FP, t1) ] >>,
          color |-> scoreToColor(scoreStart) ]

subSegment(a, b, step) ==
    LET t0 == FPDiv(step * FP, GRADIENT_STEPS * FP)
        t1 == FPDiv((step + 1) * FP, GRADIENT_STEPS * FP)
        tMid == FPDiv(t0 + t1, 2 * FP)
        scoreMid == a.score_0_100 * FP + FPMul((b.score_0_100 - a.score_0_100) * FP, tMid)
    IN  [ coords |->
            << [ latitude |-> a.lat * FP + FPMul((b.lat - a.lat) * FP, t0),
                 longitude |-> a.lon * FP + FPMul((b.lon - a.lon) * FP, t0) ],
               [ latitude |-> a.lat * FP + FPMul((b.lat - a.lat) * FP, t1),
                 longitude |-> a.lon * FP + FPMul((b.lon - a.lon) * FP, t1) ] >>,
          color |-> scoreToColor(scoreMid) ]

\* the loops of buildScoreSegments: pair i = 1..Len-1 (outer), step (inner)
RECURSIVE segmentLoop(_, _, _)
segmentLoop(sc, i, step) ==
    IF i > Len(sc) - 1 THEN <<>>
    ELSE IF step >= GRADIENT_STEPS THEN segmentLoop(sc, i + 1, 0)
    ELSE <<subSegment(sc[i], sc[i + 1], step)>> \o segmentLoop(sc, i, step + 1)

\* buildScoreSegments(_points, scores) of the native map (part_006 184-218)
buildScoreSegments_plainRoute(pts, sc) ==
    IF Len(sc) < 2
    THEN segmentLoop([ i \in 1..Len(pts) |->
                         [lat |-> pts[i].lat, lon |-> pts[i].lon, score_0_100 |-> 0] ], 1, 0)
    ELSE segmentLoop(sc, 1, 0)

buildScoreSegments(pts, sc) ==
    IF Len(sc) < 2 THEN <<>> ELSE segmentLoop(sc, 1, 0)

\* the same gradient drawn by the web map's redraw effect (RouteMap.web.tsx 353-373)
RECURSIVE webSegmentLoop(_, _, _)
webSegmentLoop(sc, i, step) ==
    IF i > Len(sc) - 1 THEN <<>>
    ELSE IF step >= 8 THEN webSegmentLoop(sc, i + 1, 0)
    ELSE LET a == sc[i]
             b == sc[i + 1]
             t0 == FPDiv(step * FP, 8 * FP)
             t1 == FPDiv((step + 1) * FP, 8 * FP)
             tMid == FPDiv(t0 + t1, 2 * FP)
             scoreMid == a.score_0_100 * FP
                         + FPMul((b.score_0_100 - a.score_0_100) * FP, tMid)
         IN  << [ coords |->
                    << [ latitude |-> a.lat * FP + FPMul((b.lat - a.lat) * FP, t0),
                         longitude |-> a.lon * FP + FPMul((b.lon - a.lon) * FP, t0) ],
                       [ latitude |-> a.lat * FP + FPMul((b.lat - a.lat) * FP, t1),
                         longitude |-> a.lon * FP + FPMul((b.lon - a.lon) * FP, t1) ] >>,
                  color |-> scoreToColorWeb(scoreMid) ] >>
             \o webSegmentLoop(sc, i, step + 1)

webScoreSegments(sc) == IF Len(sc) >= 2 THEN webSegmentLoop(sc, 1, 0) ELSE <<>>

\* the score dots both maps draw, one per score (part_006 102-123)
scoreMarkers(sc) ==
    [ i \in 1..Len(sc) |->
        [ latitude |-> sc[i].lat, longitude |-> sc[i].lon,
          backgroundColor |-> scoreToColor(sc[i].score_0_100 * FP) ] ]

\* ============================================================== API client
Tokens == {"tokA", "tokB"}

\* the exported functions of client.ts that await res.json(), and those that
\* resolve to nothing; healthCheck is the one function not built on authFetch
JsonFns == { "scoreRoute", "getProfile", "updateProfile", "getBoatPresets", "getBoats",
             "createBoat", "updateBoat", "getRoutes", "createRoute", "updateRoute",
             "createReport", "getNearbyReports", "confirmReport",
             "getScoringPreferences" }
VoidFns == { "deleteAccount", "deleteBoat", "deleteRoute", "deleteReport",
             "submitFeedback" }
AuthFns == JsonFns \cup VoidFns
ClientFns == AuthFns \cup {"healthCheck"}

\* what fetch() settles to: a response, or a rejection when the network fails
ValidJson == {"[]"}
Responses ==
    { [kind |-> "response", status |-> st, text |-> tx] :
          st \in {200, 404}, tx \in {"[]", "Not Found"} }
      \cup { [kind |-> "network_error", message |-> "Network request failed"] }

Return(v) == [kind |-> "return", value |-> v]
Throw(msg) == [kind |-> "throw", message |-> msg]

\* Response.ok
resOk(resp) == resp.status >= 200 /\ resp.status <= 299

\* res.json(): the parsed body, or the parser's SyntaxError
JsonValue(text) == IF text = "[]" THEN <<>> ELSE <<text>>
resJson(resp) ==
    IF resp.text \in ValidJson THEN Return(JsonValue(resp.text))
    ELSE Throw("JSON Parse error: Unexpected token")

\* the headers authFetch sends (client.ts 29-36); no client function passes
\* options.headers
authHeaders_noAuth(sess) ==
    {<<"Content-Type", "application/json">>}

authHeaders(sess) ==
    LET headers == {<<"Content-Type", "application/json">>}
    IN  IF sess # Null /\ sess[1].access_token # ""
        THEN headers \cup {<<"Authorization", "Bearer " \o sess[1].access_token>>}
        ELSE headers

\* authFetch after its fetch settled (client.ts 38-43)
authFetchSettled_noOkCheck(resp) ==
    IF resp.kind = "network_error" THEN Throw(resp.message)
    ELSE Return(resp)

authFetchSettled(resp) ==
    IF resp.kind = "network_error" THEN Throw(resp.message)
    ELSE IF ~resOk(resp)
         THEN Throw("API " \o ToString(resp.status) \o ": " \o resp.text)
         ELSE Return(resp)

\* healthCheck (client.ts 58-65)
healthCheck(resp) ==
    IF resp.kind = "network_error" THEN Return(FALSE) ELSE Return(resOk(resp))

\* what a call of client function fn settles to when its fetch settles to resp
clientOutcome(fn, resp) ==
    IF fn = "healthCheck" THEN healthCheck(resp)
    ELSE LET res == authFetchSettled(resp)
         IN  IF res.kind = "throw" THEN res
             ELSE IF fn \in JsonFns THEN resJson(res.value)
             ELSE Return("undefined")

InitApi ==
    /\ session \in {Null} \cup { Some([access_token |-> t]) : t \in Tokens }
    /\ apiCalls = {}
    /\ apiCount = 0
    /\ apiDone = Null

\* supabase events: a sign-in or token refresh installs a session, sign-out drops it
signIn(t) ==
    /\ session # Some([access_token |-> t])
    /\ session' = Some([access_token |-> t])
    /\ UNCHANGED <<apiCalls, apiCount, apiDone, mapVars, focusVars, fnVars, screenVars>>

signOut ==
    /\ session # Null
    /\ session' = Null
    /\ UNCHANGED <<apiCalls, apiCount, apiDone, mapVars, focusVars, fnVars, screenVars>>

\* a screen calls a client function: authFetch starts and awaits getSession();
\* healthCheck goes straight to fetch, with no options. apiCount counts the
\* calls in flight
apiCall(fn) ==
    /\ apiCount < MaxCalls
    /\ apiCount' = apiCount + 1
    /\ apiCalls' = apiCalls \cup
          { [ id |-> CHOOSE i \in 1..MaxCalls : \A c \in apiCalls : c.id # i,
              fn |-> fn,
              pc |-> IF fn = "healthCheck" THEN "fetch" ELSE "getSession",
              headers |-> {}, sessionAtFetch |-> Null ] }
    /\ UNCHANGED <<session, apiDone, mapVars, focusVars, fnVars, screenVars>>

\* getSession() resolves with the session current now; authFetch builds the
\* headers and issues the fetch in the same turn (client.ts 25-38)
getSessionResolves(c) ==
    /\ c.pc = "getSession"
    /\ apiCalls' = (apiCalls \ {c}) \cup
          { [c EXCEPT !.pc = "fetch", !.headers = authHeaders(session),
                      !.sessionAtFetch = session] }
    /\ UNCHANGED <<session, apiCount, apiDone, mapVars, focusVars, fnVars, screenVars>>

\* the fetch settles and the call returns or throws; apiDone keeps the last
\* call that settled
fetchSettles(c, resp) ==
    /\ c.pc = "fetch"
    /\ apiCalls' = apiCalls \ {c}
    /\ apiCount' = apiCount - 1
    /\ apiDone' = Some([fn |-> c.fn, response |-> resp,
                        outcome |-> clientOutcome(c.fn, resp)])
    /\ UNCHANGED <<session, mapVars, focusVars, fnVars, screenVars>>

NextApi ==
    \/ \E t \in Tokens : signIn(t)
    \/ signOut
    \/ \E fn \in ClientFns : apiCall(fn)
    \/ \E c \in apiCalls : getSessionResolves(c)
    \/ \E c \in apiCalls : \E resp \in Responses : fetchSettles(c, resp)

\* ========================================== ProfileScreen, SavedRoutesScreen
Profiles == {"profile1", "profile2"}
RouteLists == {<<>>, <<"route1">>, <<"route1", "route2">>}

InitFocus ==
    /\ focused = "Home"
    /\ profile = Null
    /\ profLoading = TRUE
    /\ routes = <<>>
    /\ routesLoading = TRUE
    /\ netOps = {}
    /\ opCount = 0
    /\ opLog = {}

\* the cleanup of ProfileScreen's focus effect: active = false (ProfileScreen.tsx 66-68)
profileCleanup(ops) ==
    { IF o.kind = "getProfile" THEN [o EXCEPT !.active = FALSE] ELSE o : o \in ops }

blur(ops) == IF focused = "Profile" THEN profileCleanup(ops) ELSE ops

\* the Profile tab gains focus: the effect starts getProfile() with active = true
focusProfile ==
    /\ focused # "Profile"
    /\ opCount < MaxLoads
    /\ focused' = "Profile"
    /\ opCount' = opCount + 1
    /\ netOps' = netOps \cup {[id |-> opCount + 1, kind |-> "getProfile", active |-> TRUE]}
    /\ UNCHANGED <<profile, profLoading, routes, routesLoading, opLog,
                   mapVars, apiVars, fnVars, screenVars>>

\* the Routes tab gains focus: setLoading(true); loadRoutes() (SavedRoutesScreen 50-55)
focusRoutes ==
    /\ focused # "Routes"
    /\ opCount < MaxLoads
    /\ focused' = "Routes"
    /\ routesLoading' = TRUE
    /\ opCount' = opCount + 1
    /\ netOps' = blur(netOps) \cup {[id |-> opCount + 1, kind |-> "getRoutes", active |-> TRUE]}
    /\ UNCHANGED <<profile, profLoading, routes, opLog, mapVars, apiVars, fnVars, screenVars>>

\* another tab gains focus
focusHome ==
    /\ focused # "Home"
    /\ focused' = "Home"
    /\ netOps' = blur(netOps)
    /\ UNCHANGED <<profile, profLoading, routes, routesLoading, opCount, opLog,
                   mapVars, apiVars, fnVars, screenVars>>

\* ProfileScreen's effect after await getProfile() (ProfileScreen.tsx 50-64)
profileLoaded_noActiveCheck(o, out) ==
    /\ profile' = IF out.status = "fulfilled" THEN Some(out.value) ELSE profile
    /\ profLoading' = FALSE
    /\ UNCHANGED <<routes, routesLoading>>

profileLoaded(o, out) ==
    /\ profile' = IF out.status = "fulfilled" /\ o.active THEN Some(out.value) ELSE profile
    /\ profLoading' = IF o.active THEN FALSE ELSE profLoading
    /\ UNCHANGED <<routes, routesLoading>>

\* loadRoutes after await getRoutes() (SavedRoutesScreen.tsx 39-47)
routesLoaded(o, out) ==
    /\ routes' = IF out.status = "fulfilled" THEN out.value ELSE routes
    /\ routesLoading' = FALSE
    /\ UNCHANGED <<profile, profLoading>>

loadSettles ==
    \E o \in netOps :
      \E out \in IF o.kind = "getProfile"
                 THEN { Fulfilled(v) : v \in Profiles } \cup {Rejected("API 401: Unauthorized")}
                 ELSE { Fulfilled(v) : v \in RouteLists } \cup {Rejected("API 401: Unauthorized")} :
        /\ netOps' = netOps \ {o}
        /\ opLog' = opLog \cup {[id |-> o.id, kind |-> o.kind, outcome |-> out]}
        /\ IF o.kind = "getProfile" THEN profileLoaded(o, out) ELSE routesLoaded(o, out)
        /\ UNCHANGED <<focused, opCount, mapVars, apiVars, fnVars, screenVars>>

NextFocus ==
    \/ focusProfile
    \/ focusRoutes
    \/ focusHome
    \/ loadSettles

\* ============================================= boats: types and the picker
\* Boat (types/navigation.ts 130-148): the fields the client reads
UserBoat(id, nm, len) ==
    [ id |-> id, is_preset |-> FALSE, name |-> nm, make |-> Null, model |-> Null,
      boat_type |-> "center_console", length_ft |-> len, beam_ft |-> 8, draft_ft |-> 2,
      comfort_bias |-> 1, max_safe_wind_kt |-> 20, max_safe_wave_ft |-> 3 ]
PresetBoat(id, nm, mk, md) ==
    [ id |-> id, is_preset |-> TRUE, name |-> nm, make |-> mk, model |-> md,
      boat_type |-> "pontoon", length_ft |-> 24, beam_ft |-> 9, draft_ft |-> 1,
      comfort_bias |-> 0, max_safe_wind_kt |-> 15, max_safe_wave_ft |-> 2 ]
B1 == UserBoat("b1", "Sea Ray", 21)
B2 == UserBoat("b2", "Skiff", 16)
P1 == PresetBoat("p1", "Pontoon 24", Some("Bennington"), Some("24 SSX"))
P2 == PresetBoat("p2", "Generic Pontoon", Null, Null)

\* what GET /boats (user boats and presets combined) and GET /boats/presets answer
GetBoatsValues == {<<>>, <<B1>>, <<B1, P1, B2>>}
GetPresetsValues == {<<P1>>, <<P1, P2>>}
Pending == [status |-> "pending"]
GetBoatsOutcomes ==
    { Fulfilled(v) : v \in GetBoatsValues } \cup {Rejected("API 500: Internal Server Error")}
GetPresetsOutcomes ==
    { Fulfilled(v) : v \in GetPresetsValues } \cup {Rejected("Network request failed")}

\* route.params.boat: the profile the Map screen is opened with
InitialBoat ==
    [ name |-> "My Boat", length_ft |-> 20, beam_ft |-> 8, draft_ft |-> 1,
      comfort_bias |-> 0, max_safe_wind_kt |-> 25, max_safe_wave_ft |-> 4 ]

\* boatToProfile (client.ts 210-220)
boatToProfile_noBias(boat) ==
    [ name |-> boat.name, length_ft |-> boat.length_ft, beam_ft |-> boat.beam_ft,
      draft_ft |-> boat.draft_ft, comfort_bias |-> 0,
      max_safe_wind_kt |-> boat.max_safe_wind_kt,
      max_safe_wave_ft |-> boat.max_safe_wave_ft ]

boatToProfile(boat) ==
    [ name |-> boat.name, length_ft |-> boat.length_ft, beam_ft |-> boat.beam_ft,
      draft_ft |-> boat.draft_ft, comfort_bias |-> boat.comfort_bias,
      max_safe_wind_kt |-> boat.max_safe_wind_kt,
      max_safe_wave_ft |-> boat.max_safe_wave_ft ]

\* Array.prototype.filter((b) => !b.is_preset)
RECURSIVE notPreset(_)
notPreset(bs) ==
    IF bs = <<>> THEN <<>>
    ELSE IF Head(bs).is_preset THEN notPreset(Tail(bs))
    ELSE <<Head(bs)>> \o notPreset(Tail(bs))

Elems(seq) == { seq[i] : i \in 1..Len(seq) }

InitBoatIdle ==
    /\ currentBoat = InitialBoat
    /\ showBoatModal = FALSE
    /\ boatList = <<>>
    /\ boatPresets = <<>>
    /\ boatsLoading = FALSE
    /\ pickedBoat = Null
    /\ boatLoads = {}

\* the list screens' calls in flight: pairs of loads, deletions, additions
pendingCalls == Cardinality(boatLoads) + Cardinality(listOps)

\* a screen starts getBoats() and getBoatPresets() under Promise.allSettled
startBoatLoad(screen) ==
    /\ pendingCalls < MaxPending
    /\ boatLoads' = boatLoads \cup
          {[id |-> CHOOSE i \in 1..MaxPending : \A l \in boatLoads : l.id # i,
            screen |-> screen, mine |-> Pending, presets |-> Pending]}

\* the boat chip of the score bar (MapScreen.tsx 375-378, 432-435)
handleOpenBoatPicker ==
    /\ scoreBarShown
    /\ ~showBoatModal
    /\ startBoatLoad("Map")
    /\ showBoatModal' = TRUE
    /\ boatsLoading' = TRUE
    /\ UNCHANGED <<currentBoat, boatList, boatPresets, pickedBoat,
                   mapVars, apiVars, focusVars, fnVars, besidesBoat>>

\* handleOpenBoatPicker after its await (MapScreen.tsx 379-385)
handleOpenBoatPickerSettled_mineFirst(mineResult, presetResult) ==
    /\ boatList' = IF mineResult.status = "fulfilled"
                   THEN notPreset(mineResult.value) ELSE boatList
    /\ boatPresets' = IF mineResult.status = "fulfilled" /\ presetResult.status = "fulfilled"
                      THEN presetResult.value ELSE boatPresets
    /\ boatsLoading' = FALSE
    /\ UNCHANGED <<currentBoat, showBoatModal, pickedBoat>>

handleOpenBoatPickerSettled(mineResult, presetResult) ==
    /\ boatList' = IF mineResult.status = "fulfilled"
                   THEN notPreset(mineResult.value) ELSE boatList
    /\ boatPresets' = IF presetResult.status = "fulfilled"
                      THEN presetResult.value ELSE boatPresets
    /\ boatsLoading' = FALSE
    /\ UNCHANGED <<currentBoat, showBoatModal, pickedBoat>>

\* a card of the picker, listed once the loads have settled (MapScreen.tsx 387-390)
handlePickBoat(boat) ==
    /\ showBoatModal
    /\ ~boatsLoading
    /\ boat \in Elems(boatList) \cup Elems(boatPresets)
    /\ currentBoat' = boatToProfile(boat)
    /\ showBoatModal' = FALSE
    /\ pickedBoat' = Some(boat)
    /\ UNCHANGED <<boatList, boatPresets, boatsLoading, boatLoads,
                   mapVars, apiVars, focusVars, fnVars, besidesBoat>>

\* the picker's Cancel button (MapScreen.tsx 688-691)
cancelBoatPicker ==
    /\ showBoatModal
    /\ showBoatModal' = FALSE
    /\ UNCHANGED <<currentBoat, boatList, boatPresets, boatsLoading, pickedBoat,
                   boatLoads, mapVars, apiVars, focusVars, fnVars,
                   besidesBoat>>

\* loadBoats after its await (BoatListScreen.tsx 92-104)
boatListLoaded_unfiltered(mineResult, presetResult) ==
    /\ myBoats' = IF mineResult.status = "fulfilled" THEN mineResult.value ELSE myBoats
    /\ presets' = IF presetResult.status = "fulfilled" THEN presetResult.value ELSE presets
    /\ boatListLoading' = FALSE
    /\ refreshing' = FALSE
    /\ UNCHANGED addingId

boatListLoaded(mineResult, presetResult) ==
    /\ myBoats' = IF mineResult.status = "fulfilled"
                  THEN notPreset(mineResult.value) ELSE myBoats
    /\ presets' = IF presetResult.status = "fulfilled" THEN presetResult.value ELSE presets
    /\ boatListLoading' = FALSE
    /\ refreshing' = FALSE
    /\ UNCHANGED addingId

\* loadBoats after its await (BoatSetupScreen.tsx 37-46)
setupLoaded(mineResult, presetResult) ==
    /\ setupBoats' = IF mineResult.status = "fulfilled"
                     THEN notPreset(mineResult.value) ELSE setupBoats
    /\ setupPresets' = IF presetResult.status = "fulfilled"
                       THEN presetResult.value ELSE setupPresets
    /\ setupLoading' = FALSE

\* one of the two requests of a pair settles; when it is the second, allSettled
\* resolves and the screen's handler goes on in the same turn
boatLoadSettles ==
    \E l \in boatLoads : \E which \in {"mine", "presets"} :
      \E out \in IF which = "mine" THEN GetBoatsOutcomes ELSE GetPresetsOutcomes :
        LET l2 == IF which = "mine" THEN [l EXCEPT !.mine = out]
                  ELSE [l EXCEPT !.presets = out]
            settled == l2.mine # Pending /\ l2.presets # Pending
        IN  /\ (IF which = "mine" THEN l.mine ELSE l.presets) = Pending
            /\ boatLoads' = IF settled THEN boatLoads \ {l}
                            ELSE (boatLoads \ {l}) \cup {l2}
            /\ IF settled /\ l.screen = "Map"
               THEN handleOpenBoatPickerSettled(l2.mine, l2.presets)
               ELSE UNCHANGED <<currentBoat, showBoatModal, boatList, boatPresets,
                                boatsLoading, pickedBoat>>
            /\ IF settled /\ l.screen = "BoatList"
               THEN boatListLoaded(l2.mine, l2.presets)
               ELSE UNCHANGED boatListVars
            /\ IF settled /\ l.screen = "BoatSetup"
               THEN setupLoaded(l2.mine, l2.presets)
               ELSE UNCHANGED setupVars
            /\ UNCHANGED <<mapVars, apiVars, focusVars, fnVars, besidesLoads>>

\* ============================================= ProfileScreen: the account
AccountOutcomes == {[status |-> "fulfilled"], Rejected("API 500: Internal Server Error")}

InitAccountIdle ==
    /\ saving = FALSE
    /\ deleting = FALSE
    /\ deleteConfirm = FALSE
    /\ acctOps = {}
    /\ acctCount = 0
    /\ acctLog = {}
    /\ signOutCalls = 0
    /\ accountDeleted = FALSE

\* a call of the API client or of signOut leaves the screen's handler suspended
startAccountOp(kind, from) ==
    /\ acctCount < MaxAccountOps
    /\ acctCount' = acctCount + 1
    /\ acctOps' = acctOps \cup {[id |-> acctCount + 1, kind |-> kind, from |-> from]}

\* the Delete Account button: asks for confirmation (ProfileScreen.tsx 131-148)
handleDeleteAccount ==
    /\ ~deleting
    /\ ~deleteConfirm
    /\ deleteConfirm' = TRUE
    /\ UNCHANGED <<saving, deleting, acctOps, acctCount, acctLog, signOutCalls,
                   accountDeleted, mapVars, apiVars, focusVars, fnVars, besidesAccount>>

cancelDeleteAccount ==
    /\ deleteConfirm
    /\ deleteConfirm' = FALSE
    /\ UNCHANGED <<saving, deleting, acctOps, acctCount, acctLog, signOutCalls,
                   accountDeleted, mapVars, apiVars, focusVars, fnVars, besidesAccount>>

\* doDelete up to await deleteAccount() (ProfileScreen.tsx 116-119)
doDelete ==
    /\ deleteConfirm
    /\ deleteConfirm' = FALSE
    /\ deleting' = TRUE
    /\ startAccountOp("deleteAccount", "doDelete")
    /\ UNCHANGED <<saving, acctLog, signOutCalls, accountDeleted,
                   mapVars, apiVars, focusVars, fnVars, besidesAccount>>

\* doDelete when deleteAccount() has settled (ProfileScreen.tsx 119-128)
deleteAccountRejected_noFinally(op, message) ==
    /\ acctOps' = acctOps \ {op}
    /\ showAlert("Delete Failed", message)
    /\ UNCHANGED <<deleting, signOutCalls, accountDeleted, session>>

deleteAccountRejected(op, message) ==
    /\ acctOps' = acctOps \ {op}
    /\ showAlert("Delete Failed", message)
    /\ deleting' = FALSE
    /\ UNCHANGED <<signOutCalls, accountDeleted, session>>

deleteAccountFulfilled(op) ==
    /\ accountDeleted' = TRUE
    /\ acctOps' = (acctOps \ {op}) \cup {[op EXCEPT !.kind = "signOut"]}
    /\ signOutCalls' = signOutCalls + 1
    /\ UNCHANGED <<deleting, lastAlert, alertTick, session>>

\* the Sign Out button (ProfileScreen.tsx 107-113)
handleSignOut ==
    /\ startAccountOp("signOut", "handleSignOut")
    /\ signOutCalls' = signOutCalls + 1
    /\ UNCHANGED <<saving, deleting, deleteConfirm, acctLog, accountDeleted,
                   mapVars, apiVars, focusVars, fnVars, besidesAccount>>

\* signOut() has settled: in doDelete (ProfileScreen.tsx 120-128) or in
\* handleSignOut (ProfileScreen.tsx 109-112)
signOutSettled(op, out) ==
    /\ acctOps' = acctOps \ {op}
    /\ session' = IF out.status = "fulfilled" THEN Null ELSE session
    /\ IF op.from = "doDelete" /\ out.status = "rejected"
       THEN showAlert("Delete Failed", out.message)
       ELSE UNCHANGED <<lastAlert, alertTick>>
    /\ deleting' = IF op.from = "doDelete" THEN FALSE ELSE deleting
    /\ UNCHANGED <<signOutCalls, accountDeleted>>

accountOpSettles ==
    \E op \in acctOps : \E out \in AccountOutcomes :
        /\ op.kind \in {"deleteAccount", "signOut"}
        /\ acctLog' = acctLog \cup {<<op.id, op.kind, op.from, out.status>>}
        /\ IF op.kind = "signOut" THEN signOutSettled(op, out)
           ELSE IF out.status = "fulfilled" THEN deleteAccountFulfilled(op)
           ELSE deleteAccountRejected(op, out.message)
        /\ UNCHANGED <<saving, deleteConfirm, acctCount, mapOther, apiCalls, apiCount,
                       apiDone, focusVars, fnVars, besidesAccount>>

\* the Save button, disabled while saving (ProfileScreen.tsx 87-105, 252-254)
handleSave ==
    /\ ~saving
    /\ saving' = TRUE
    /\ startAccountOp("updateProfile", "handleSave")
    /\ UNCHANGED <<deleting, deleteConfirm, acctLog, signOutCalls, accountDeleted,
                   mapVars, apiVars, focusVars, fnVars, besidesAccount>>

updateProfileSettles ==
    \E op \in acctOps :
      \E out \in { Fulfilled(v) : v \in Profiles } \cup {Rejected("API 400: Bad Request")} :
        /\ op.kind = "updateProfile"
        /\ acctOps' = acctOps \ {op}
        /\ acctLog' = acctLog \cup {<<op.id, op.kind, op.from, out.status>>}
        /\ profile' = IF out.status = "fulfilled" THEN Some(out.value) ELSE profile
        /\ IF out.status = "fulfilled"
           THEN showAlert("Profile Saved", "Your profile has been updated.")
           ELSE showAlert("Save Failed", out.message)
        /\ saving' = FALSE
        /\ UNCHANGED <<deleting, deleteConfirm, acctCount, signOutCalls, accountDeleted,
                       mapOther, apiVars, focused, profLoading, routes, routesLoading,
                       netOps, opCount, opLog, fnVars, besidesAccount>>

\* ============================================= the lists: boats and saved routes
InitListsIdle ==
    /\ myBoats = <<>>
    /\ presets = <<>>
    /\ boatListLoading = TRUE
    /\ refreshing = FALSE
    /\ addingId = Null
    /\ setupBoats = <<>>
    /\ setupPresets = <<>>
    /\ setupLoading = TRUE
    /\ confirmDlg = Null
    /\ listOps = {}
    /\ listDone = Null

\* the Boats tab gains focus: setLoading(true); loadBoats() (BoatListScreen.tsx 106-111)
focusBoats ==
    /\ focused # "Boats"
    /\ confirmDlg = Null
    /\ focused' = "Boats"
    /\ netOps' = blur(netOps)
    /\ boatListLoading' = TRUE
    /\ startBoatLoad("BoatList")
    /\ UNCHANGED <<profile, profLoading, routes, routesLoading, opCount, opLog,
                   myBoats, presets, refreshing, addingId,
                   currentBoat, showBoatModal, boatList, boatPresets, boatsLoading,
                   pickedBoat, mapVars, apiVars, fnVars, accountVars, setupVars,
                   listOpVars, mountVars, reportVars, pickerVars>>

\* pull to refresh (BoatListScreen.tsx 239-242); the list is rendered once loading
\* is false (225-231)
onRefreshBoats ==
    /\ focused = "Boats"
    /\ confirmDlg = Null
    /\ ~boatListLoading
    /\ refreshing' = TRUE
    /\ startBoatLoad("BoatList")
    /\ UNCHANGED <<myBoats, presets, boatListLoading, addingId,
                   currentBoat, showBoatModal, boatList, boatPresets, boatsLoading,
                   pickedBoat, mapVars, apiVars, focusVars, fnVars, accountVars,
                   setupVars, listOpVars, mountVars, reportVars, pickerVars>>

\* BoatSetup, a screen of the Home tab, gains focus (BoatSetupScreen.tsx 48-53)
focusBoatSetup ==
    /\ focused = "Home"
    /\ setupLoading' = TRUE
    /\ startBoatLoad("BoatSetup")
    /\ UNCHANGED <<setupBoats, setupPresets,
                   currentBoat, showBoatModal, boatList, boatPresets, boatsLoading,
                   pickedBoat, mapVars, apiVars, focusVars, fnVars, accountVars,
                   boatListVars, listOpVars, mountVars, reportVars, pickerVars>>

\* Array.prototype.filter((x) => x.id !== id); a saved route is modelled by its id
RECURSIVE withoutBoat(_, _)
withoutBoat(bs, id) ==
    IF bs = <<>> THEN <<>>
    ELSE IF Head(bs).id = id THEN withoutBoat(Tail(bs), id)
    ELSE <<Head(bs)>> \o withoutBoat(Tail(bs), id)

RECURSIVE withoutRoute(_, _)
withoutRoute(rs, id) ==
    IF rs = <<>> THEN <<>>
    ELSE IF Head(rs) = id THEN withoutRoute(Tail(rs), id)
    ELSE <<Head(rs)>> \o withoutRoute(Tail(rs), id)

\* handleDelete: showConfirm opens its dialog (BoatListScreen.tsx 113-114, 56-65)
handleDeleteBoat(boat) ==
    /\ focused = "Boats"
    /\ ~boatListLoading
    /\ confirmDlg = Null
    /\ boat \in Elems(myBoats)
    /\ confirmDlg' = Some([kind |-> "deleteBoat", target |-> boat.id])
    /\ UNCHANGED <<listOps, listDone, mapVars, apiVars, focusVars, fnVars,
                   boatListVars, besidesLists>>

\* handleDelete (SavedRoutesScreen.tsx 57-58, 21-30)
handleDeleteRoute(route) ==
    /\ focused = "Routes"
    /\ ~routesLoading
    /\ confirmDlg = Null
    /\ route \in Elems(routes)
    /\ confirmDlg' = Some([kind |-> "deleteRoute", target |-> route])
    /\ UNCHANGED <<listOps, listDone, mapVars, apiVars, focusVars, fnVars,
                   boatListVars, besidesLists>>

\* the slot of a call that is started
freeListOp == CHOOSE i \in 1..MaxPending : \A op \in listOps : op.id # i

\* the dialog's Cancel: onOk is not called
confirmCancel ==
    /\ confirmDlg # Null
    /\ confirmDlg' = Null
    /\ UNCHANGED <<listOps, listDone, mapVars, apiVars, focusVars, fnVars,
                   boatListVars, besidesLists>>

\* the dialog's Delete: onOk starts deleteBoat(boat.id) / deleteRoute(route.id)
confirmDelete ==
    /\ confirmDlg # Null
    /\ pendingCalls < MaxPending
    /\ confirmDlg' = Null
    /\ listOps' = listOps \cup
          {[id |-> freeListOp, kind |-> confirmDlg[1].kind,
            target |-> confirmDlg[1].target]}
    /\ UNCHANGED <<listDone, mapVars, apiVars, focusVars, fnVars, boatListVars,
                   besidesLists>>

\* onOk after await deleteBoat (BoatListScreen.tsx 115-121)
deleteBoatSettled_clearsList(op, out) ==
    /\ myBoats' = IF out.status = "fulfilled" THEN <<>> ELSE myBoats
    /\ IF out.status = "fulfilled"
       THEN showAlert("Deleted", "removed from your boats.")
       ELSE showAlert("Delete Failed", out.message)
    /\ UNCHANGED <<presets, boatListLoading, refreshing, addingId, mapOther, focusVars>>

deleteBoatSettled(op, out) ==
    /\ myBoats' = IF out.status = "fulfilled" THEN withoutBoat(myBoats, op.target)
                  ELSE myBoats
    /\ IF out.status = "fulfilled"
       THEN showAlert("Deleted", "removed from your boats.")
       ELSE showAlert("Delete Failed", out.message)
    /\ UNCHANGED <<presets, boatListLoading, refreshing, addingId, mapOther, focusVars>>

\* onOk after await deleteRoute (SavedRoutesScreen.tsx 59-64)
deleteRouteSettled(op, out) ==
    /\ routes' = IF out.status = "fulfilled" THEN withoutRoute(routes, op.target)
                 ELSE routes
    /\ UNCHANGED <<focused, profile, profLoading, routesLoading, netOps, opCount, opLog,
                   mapVars, boatListVars>>

\* the name handleAddPreset gives the new boat (BoatListScreen.tsx 136-138)
presetName(preset) ==
    IF preset.make # Null /\ preset.model # Null
    THEN preset.make[1] \o " " \o preset.model[1]
    ELSE preset.name

\* POST /boats answers the boat it created for the user
CreatedBoat(op) ==
    [ op.data EXCEPT !.id = "n" \o op.target, !.is_preset = FALSE,
                     !.make = Null, !.model = Null ]

\* handleAddPreset up to its await (BoatListScreen.tsx 132-146); a preset whose
\* name is among myBoats shows the Added badge instead of the button (184, 201-204)
handleAddPreset(preset) ==
    /\ focused = "Boats"
    /\ ~boatListLoading
    /\ confirmDlg = Null
    /\ preset \in Elems(presets)
    /\ presetName(preset) \notin { b.name : b \in Elems(myBoats) }
    /\ addingId # Some(preset.id)
    /\ pendingCalls < MaxPending
    /\ addingId' = Some(preset.id)
    /\ listOps' = listOps \cup
          {[id |-> freeListOp, kind |-> "createBoat", target |-> preset.id,
            data |-> [preset EXCEPT !.name = presetName(preset)]]}
    /\ UNCHANGED <<myBoats, presets, boatListLoading, refreshing, confirmDlg, listDone,
                   mapVars, apiVars, focusVars, fnVars, besidesLists>>

\* handleAddPreset after await createBoat (BoatListScreen.tsx 147-155)
createBoatSettled(op, out) ==
    /\ myBoats' = IF out.status = "fulfilled" THEN Append(myBoats, out.value) ELSE myBoats
    /\ IF out.status = "fulfilled"
       THEN showAlert("Added", "added to your boats.")
       ELSE showAlert("Add Failed", out.message)
    /\ addingId' = Null
    /\ UNCHANGED <<presets, boatListLoading, refreshing, mapOther, focusVars>>

\* a deleteBoat, deleteRoute or createBoat call settles
listOpSettles ==
    \E op \in listOps :
      \E out \in IF op.kind = "createBoat"
                 THEN {Fulfilled(CreatedBoat(op)), Rejected("API 500: Internal Server Error")}
                 ELSE {Fulfilled(Null), Rejected("API 404: Not Found")} :
        /\ listOps' = listOps \ {op}
        /\ listDone' = Some(out.status)
        /\ CASE op.kind = "deleteBoat" -> deleteBoatSettled(op, out)
             [] op.kind = "deleteRoute" -> deleteRouteSettled(op, out)
             [] op.kind = "createBoat" -> createBoatSettled(op, out)
        /\ UNCHANGED <<confirmDlg, apiVars, fnVars, besidesLists>>

\* ============================================= MapScreen: regions and reports
\* positions the device reports, and the profile's home
G == [lat |-> 31, lon |-> -88]
G2 == [lat |-> 31, lon |-> -89]
Home == [home_lat |-> Some(29), home_lon |-> Some(-90)]
NoHome == [home_lat |-> Null, home_lon |-> Null]
NearbyValues == {<<>>, <<"report1">>}

\* a region in hundredths of a degree: the 0.15 degree region the effects build
\* around a position (MapScreen.tsx 161-166, 183-188, 200-205)
regionAround(lat, lon) ==
    [ latitude |-> 100 * lat, longitude |-> 100 * lon,
      latitudeDelta |-> 15, longitudeDelta |-> 15 ]

RECURSIVE minOf(_), maxOf(_)
minOf(xs) == IF Len(xs) = 1 THEN xs[1] ELSE Min(xs[1], minOf(Tail(xs)))
maxOf(xs) == IF Len(xs) = 1 THEN xs[1] ELSE Max(xs[1], maxOf(Tail(xs)))

\* regionFromPoints (MapScreen.tsx 70-93): null for no points
regionFromPoints(pts) ==
    IF Len(pts) = 0 THEN Null
    ELSE LET lats == [i \in 1..Len(pts) |-> pts[i].lat]
             lons == [i \in 1..Len(pts) |-> pts[i].lon]
         IN  Some([ latitude |-> 50 * (minOf(lats) + maxOf(lats)),
                    longitude |-> 50 * (minOf(lons) + maxOf(lons)),
                    latitudeDelta |-> Max(1, 140 * (maxOf(lats) - minOf(lats))),
                    longitudeDelta |-> Max(1, 140 * (maxOf(lons) - minOf(lons))) ])

\* routeRegion (MapScreen.tsx 155): an array, even an empty one, is truthy
routeRegion == IF loadRoute # Null THEN regionFromPoints(loadRoute[1]) ELSE Null

\* the initialRegion prop (MapScreen.tsx 423); undefined is Null
initialRegion(rr, hr, lr) ==
    IF rr # Null THEN rr ELSE IF hr # Null THEN hr ELSE lr

\* state outside the specifications of the mounted Map screen
InitMountIdle ==
    /\ loadRoute = Null
    /\ userLocation = Null
    /\ locationRegion = Null
    /\ homeRegion = Null
    /\ mountOps = {}
    /\ hasAnimated = FALSE
    /\ mapView = Null
    /\ animations = 0
    /\ reports = <<>>
    /\ reportReqs = {}
    /\ reportsSettled = Null
    /\ showReportModal = FALSE
    /\ creatingReport = FALSE
    /\ reportOp = Null

\* the centre of the nearby-reports effect (MapScreen.tsx 215-221)
reportsCenter(pts, loc) ==
    IF Len(pts) > 0 THEN Some(pts[(Len(pts) \div 2) + 1]) ELSE loc

\* the nearby-reports effect, run when points.length or userLocation has
\* changed, with their new values (MapScreen.tsx 214-224)
nearbyReportsEffect(pts, loc) ==
    LET center == reportsCenter(pts, loc)
    IN  reportReqs' = IF center = Null THEN reportReqs ELSE reportReqs \cup {center[1]}

\* RouteMap's effect on [initialRegion], run when the prop has changed
\* (part_006 42-47, RouteMap.web.tsx 280-287)
routeMapEffect_everyTime(old, new, pts) ==
    IF new # old /\ new # Null /\ Len(pts) = 0
    THEN /\ hasAnimated' = TRUE
         /\ mapView' = new
         /\ animations' = animations + 1
    ELSE UNCHANGED <<hasAnimated, mapView, animations>>

routeMapEffect(old, new, pts) ==
    IF new # old /\ new # Null /\ ~hasAnimated /\ Len(pts) = 0
    THEN /\ hasAnimated' = TRUE
         /\ mapView' = new
         /\ animations' = animations + 1
    ELSE UNCHANGED <<hasAnimated, mapView, animations>>

\* the Map screen as mounted with a route parameter: points starts as loadRoute,
\* both mount effects have sent their requests, the nearby-reports effect has run
InitMount ==
    /\ loadRoute \in {Null} \cup { Some(r) : r \in LoadRoutes }
    /\ points = IF loadRoute # Null THEN loadRoute[1] ELSE <<>>
    /\ userLocation = Null
    /\ locationRegion = Null
    /\ homeRegion = Null
    /\ mountOps = {"getProfile", "getCurrentPosition"}
    /\ hasAnimated = FALSE
    /\ mapView = Null
    /\ animations = 0
    /\ reports = <<>>
    /\ reportReqs = IF Len(points) > 0 THEN {reportsCenter(points, Null)[1]} ELSE {}
    /\ reportsSettled = Null
    /\ showReportModal = FALSE
    /\ creatingReport = FALSE
    /\ reportOp = Null

\* the home-region effect after getProfile() (MapScreen.tsx 158-170)
homeLoaded ==
    /\ "getProfile" \in mountOps
    /\ mountOps' = mountOps \ {"getProfile"}
    /\ \E out \in {Fulfilled(Home), Fulfilled(NoHome), Rejected("API 401: Unauthorized")} :
         /\ homeRegion' =
              IF /\ out.status = "fulfilled"
                 /\ out.value.home_lat # Null /\ out.value.home_lon # Null
              THEN Some(regionAround(out.value.home_lat[1], out.value.home_lon[1]))
              ELSE homeRegion
         /\ routeMapEffect(initialRegion(routeRegion, homeRegion, locationRegion),
                           initialRegion(routeRegion, homeRegion', locationRegion),
                           points)
    /\ UNCHANGED <<loadRoute, userLocation, locationRegion, reportVars,
                   mapVars, apiVars, focusVars, fnVars, besidesMount>>

\* the location effect once the position request has ended (MapScreen.tsx 173-209):
\* a position sets userLocation and locationRegion; a refusal or a failure sets nothing
locationFound ==
    /\ "getCurrentPosition" \in mountOps
    /\ mountOps' = mountOps \ {"getCurrentPosition"}
    /\ \E pos \in {Some(G), Null} :
         IF pos # Null
         THEN /\ userLocation' = pos
              /\ locationRegion' = Some(regionAround(pos[1].lat, pos[1].lon))
              /\ routeMapEffect(initialRegion(routeRegion, homeRegion, locationRegion),
                                initialRegion(routeRegion, homeRegion, locationRegion'),
                                points)
              /\ nearbyReportsEffect(points, userLocation')
         ELSE UNCHANGED <<userLocation, locationRegion, hasAnimated, mapView,
                          animations, reportReqs>>
    /\ UNCHANGED <<loadRoute, homeRegion, reports, reportsSettled, showReportModal,
                   creatingReport, reportOp,
                   mapVars, apiVars, focusVars, fnVars, besidesMount>>

\* a tap on the map, Undo and Clear, each followed by the nearby-reports effect
\* of the render they cause; the map is covered while the report modal is open
tapMap(p) ==
    /\ ~showReportModal
    /\ addPoint(p)
    /\ nearbyReportsEffect(points', userLocation)
    /\ UNCHANGED <<mountVars, reports, reportsSettled, showReportModal, creatingReport,
                   reportOp, apiVars, focusVars, fnVars, besidesMount>>

pressUndo ==
    /\ ~showReportModal
    /\ undoPoint
    /\ nearbyReportsEffect(points', userLocation)
    /\ UNCHANGED <<mountVars, reports, reportsSettled, showReportModal, creatingReport,
                   reportOp, apiVars, focusVars, fnVars, besidesMount>>

pressClear ==
    /\ ~showReportModal
    /\ clearPoints
    /\ nearbyReportsEffect(points', userLocation)
    /\ UNCHANGED <<mountVars, reports, reportsSettled, showReportModal, creatingReport,
                   reportOp, apiVars, focusVars, fnVars, besidesMount>>

\* a getNearbyReports call of the effect settles: .then(setReports).catch(() => {})
nearbyReportsSettled_clearsOnFailure(out) ==
    reports' = IF out.status = "fulfilled" THEN out.value ELSE <<>>

nearbyReportsSettled(out) ==
    reports' = IF out.status = "fulfilled" THEN out.value ELSE reports

nearbyReportsSettles ==
    \E c \in reportReqs :
      \E out \in { Fulfilled(v) : v \in NearbyValues } \cup {Rejected("Network request failed")} :
        /\ reportReqs' = reportReqs \ {c}
        /\ reportsSettled' = Some(out.status)
        /\ nearbyReportsSettled(out)
        /\ UNCHANGED <<mountVars, showReportModal, creatingReport, reportOp,
                       mapVars, apiVars, focusVars, fnVars, besidesMount>>

\* the location handleCreateReport reports: the fresh position, else the cached
\* user location, else the middle route point, else none (MapScreen.tsx 322-351)
reportLocation_cachedFirst(fresh, cached, pts) ==
    IF cached # Null THEN cached
    ELSE IF fresh # Null THEN fresh
    ELSE IF Len(pts) > 0 THEN Some(pts[(Len(pts) \div 2) + 1])
    ELSE Null

reportLocation(fresh, cached, pts) ==
    IF fresh # Null THEN fresh
    ELSE IF cached # Null THEN cached
    ELSE IF Len(pts) > 0 THEN Some(pts[(Len(pts) \div 2) + 1])
    ELSE Null

\* the Report button of the score bar (MapScreen.tsx 430, 483-490)
openReportModal ==
    /\ scoreBarShown
    /\ Len(points) > 0 \/ userLocation # Null
    /\ ~showReportModal
    /\ showReportModal' = TRUE
    /\ UNCHANGED <<mountVars, reports, reportReqs, reportsSettled, creatingReport,
                   reportOp, mapVars, apiVars, focusVars, fnVars, besidesMount>>

\* the modal's Cancel (MapScreen.tsx 608-613)
cancelReportModal ==
    /\ showReportModal
    /\ showReportModal' = FALSE
    /\ UNCHANGED <<mountVars, reports, reportReqs, reportsSettled, creatingReport,
                   reportOp, mapVars, apiVars, focusVars, fnVars, besidesMount>>

\* handleCreateReport up to its first await (MapScreen.tsx 318-345); userLocation
\* and points are those of the render the handler was created in
handleCreateReport ==
    /\ reportOp = Null
    /\ creatingReport' = TRUE
    /\ reportOp' = Some([stage |-> "position", cached |-> userLocation, pts |-> points,
                         fresh |-> Null, loc |-> Null])
    /\ UNCHANGED <<mountVars, reports, reportReqs, reportsSettled, showReportModal,
                   mapVars, apiVars, focusVars, fnVars, besidesMount>>

\* the fresh position is there or is not: the location is chosen, and either
\* 'No location' ends the handler or createReport is sent (MapScreen.tsx 346-361)
freshPositionSettles ==
    /\ reportOp # Null /\ reportOp[1].stage = "position"
    /\ \E fresh \in {Some(G2), Null} :
         LET op == reportOp[1]
             loc == reportLocation(fresh, op.cached, op.pts)
         IN  IF loc = Null
             THEN /\ showAlert("No location", "Unable to determine your location.")
                  /\ creatingReport' = FALSE
                  /\ reportOp' = Null
             ELSE /\ reportOp' = Some([op EXCEPT !.stage = "createReport",
                                                 !.fresh = fresh, !.loc = loc])
                  /\ UNCHANGED <<lastAlert, alertTick, creatingReport>>
    /\ UNCHANGED <<mountVars, reports, reportReqs, reportsSettled, showReportModal,
                   mapOther, apiVars, focusVars, fnVars, besidesMount>>

\* after await createReport(data) (MapScreen.tsx 361-363, 367-371)
createReportSettles ==
    /\ reportOp # Null /\ reportOp[1].stage = "createReport"
    /\ \E out \in {Fulfilled("report"), Rejected("API 500: Internal Server Error")} :
         IF out.status = "fulfilled"
         THEN /\ showReportModal' = FALSE
              /\ reportOp' = Some([reportOp[1] EXCEPT !.stage = "getNearbyReports"])
              /\ UNCHANGED <<lastAlert, alertTick, creatingReport>>
         ELSE /\ showAlert("Report failed", out.message)
              /\ creatingReport' = FALSE
              /\ reportOp' = Null
              /\ UNCHANGED showReportModal
    /\ UNCHANGED <<mountVars, reports, reportReqs, reportsSettled,
                   mapOther, apiVars, focusVars, fnVars, besidesMount>>

\* after await getNearbyReports(loc.lat, loc.lon, 20) (MapScreen.tsx 364-371)
reportsRefreshed(out) ==
    /\ reports' = IF out.status = "fulfilled" THEN out.value ELSE reports
    /\ IF out.status = "fulfilled"
       THEN showAlert("Report Created", "Thanks for the report!")
       ELSE showAlert("Report failed", out.message)
    /\ creatingReport' = FALSE
    /\ reportOp' = Null

refreshSettles ==
    /\ reportOp # Null /\ reportOp[1].stage = "getNearbyReports"
    /\ \E out \in { Fulfilled(v) : v \in NearbyValues } \cup {Rejected("Network request failed")} :
         reportsRefreshed(out)
    /\ UNCHANGED <<mountVars, reportReqs, reportsSettled, showReportModal,
                   mapOther, apiVars, focusVars, fnVars, besidesMount>>

\* ============================================= TimePicker and its date-time modal
\* a Date: the day counted from today, and the time of day
DateOf(d, h, mi, sec) == [day |-> d, hour |-> h, minute |-> mi, second |-> sec]

\* new Date(): the clock when it is asked
Now == DateOf(0, 7, 58, 41)

\* parseTimeStr (TimePicker.tsx 14-20): "YYYY-MM-DD HH:MM" is <<day, hour, minute>>;
\* a string without both parts gives new Date()
parseTimeStr(str) ==
    IF Len(str) = 0 THEN Now ELSE DateOf(str[1], str[2], str[3], 0)

\* fmtDate (TimePicker.tsx 23-30)
fmtDate(d) == <<d.day, d.hour, d.minute>>

\* Date.prototype.setHours(h, mi, 0, 0): values out of range carry over
setHours(d, h, mi) ==
    LET total == 60 * h + mi
    IN  DateOf(d.day + total \div (24 * 60), (total % (24 * 60)) \div 60, total % 60, 0)

\* Math.round(m / 5) * 5 for a minute m (DateTimePickerModal.tsx 331-333)
roundToFive(m) == ((m + 2) \div 5) * 5

\* the days of MiniCalendar and the rows of the two wheels that are tried
CalendarDays == {0, 1}
WheelHours == {8, 23}
WheelMinutes == {0, 55}

\* useState(value), useState(value.getHours()), ... (DateTimePickerModal.tsx 329-333)
modalStateFrom(value) ==
    /\ selectedDate' = value
    /\ hour' = value.hour
    /\ minute' = roundToFive(value.minute)

InitPicker ==
    /\ showPicker = FALSE
    /\ selectedDate = parseTimeStr(T0)
    /\ hour = parseTimeStr(T0).hour
    /\ minute = roundToFive(parseTimeStr(T0).minute)
    /\ lastConfirm = Null
    /\ confirmTick = FALSE

\* the Times toggle mounts or unmounts TimePicker and, with it, the modal
\* (MapScreen.tsx 404-412): mounted, their state is the initial one
toggleTimePicker ==
    /\ scoreBarShown
    /\ ~showPicker
    /\ showTimes' = ~showTimes
    /\ modalStateFrom(parseTimeStr(startTime))
    /\ UNCHANGED <<showPicker, lastConfirm, confirmTick, points, startTime, speedMph,
                   scores, selectedScore, loading, showFeedback, lastAlert, alertTick,
                   scoreReqs, reqCount, scoreDone, apiVars, focusVars, fnVars,
                   besidesPicker>>

\* the quick buttons: onStartChange with a full hour (TimePicker.tsx 103-128)
quickStart(v) ==
    /\ showTimes
    /\ ~showPicker
    /\ startTime' = v
    /\ UNCHANGED <<pickerVars, points, speedMph, scores, selectedScore, loading,
                   showTimes, showFeedback, lastAlert, alertTick, scoreReqs, reqCount,
                   scoreDone, apiVars, focusVars, fnVars, besidesPicker>>

\* the Departure button: setShowPicker(true), and the modal's effect on [visible]
\* (TimePicker.tsx 81-86, DateTimePickerModal.tsx 335-342)
openPicker_noReset ==
    /\ showTimes
    /\ ~showPicker
    /\ showPicker' = TRUE
    /\ UNCHANGED <<selectedDate, hour, minute, lastConfirm, confirmTick, mapVars, apiVars,
                   focusVars, fnVars, besidesPicker>>

openPicker ==
    /\ showTimes
    /\ ~showPicker
    /\ showPicker' = TRUE
    /\ modalStateFrom(parseTimeStr(startTime))
    /\ UNCHANGED <<lastConfirm, confirmTick, mapVars, apiVars, focusVars, fnVars,
                   besidesPicker>>

\* a day of the calendar: new Date(viewYear, viewMonth, day)
\* (DateTimePickerModal.tsx 227, 350-352)
handleDateSelect(day) ==
    /\ showPicker
    /\ selectedDate' = DateOf(day, 0, 0, 0)
    /\ UNCHANGED <<showPicker, hour, minute, lastConfirm, confirmTick, mapVars, apiVars,
                   focusVars, fnVars, besidesPicker>>

\* the wheels: setHour(i) and setMinute(i * 5) (DateTimePickerModal.tsx 370-380)
selectHour(i) ==
    /\ showPicker
    /\ hour' = i
    /\ UNCHANGED <<showPicker, selectedDate, minute, lastConfirm, confirmTick, mapVars,
                   apiVars, focusVars, fnVars, besidesPicker>>

selectMinute(i) ==
    /\ showPicker
    /\ minute' = i * 5
    /\ UNCHANGED <<showPicker, selectedDate, hour, lastConfirm, confirmTick, mapVars,
                   apiVars, focusVars, fnVars, besidesPicker>>

\* Cancel: onCancel is setShowPicker(false) (DateTimePickerModal.tsx 385, TimePicker.tsx 148)
cancelPicker ==
    /\ showPicker
    /\ showPicker' = FALSE
    /\ UNCHANGED <<selectedDate, hour, minute, lastConfirm, confirmTick, mapVars,
                   apiVars, focusVars, fnVars, besidesPicker>>

\* Set Time: handleConfirm, then TimePicker's onConfirm
\* (DateTimePickerModal.tsx 344-348, TimePicker.tsx 144-147)
handleConfirm ==
    /\ showPicker
    /\ LET result == setHours(selectedDate, hour, minute)
       IN  /\ lastConfirm' = Some(result)
           /\ startTime' = fmtDate(result)
    /\ confirmTick' = ~confirmTick
    /\ showPicker' = FALSE
    /\ UNCHANGED <<selectedDate, hour, minute, points, speedMph, scores, selectedScore,
                   loading, showTimes, showFeedback, lastAlert, alertTick, scoreReqs,
                   reqCount, scoreDone, apiVars, focusVars, fnVars, besidesPicker>>

InitBesidesMount == InitBoatIdle /\ InitAccountIdle /\ InitListsIdle /\ InitPicker
InitScreens == InitBesidesMount /\ InitMountIdle

\* ===================================================== the helper functions
InitFn ==
    /\ fnIn = Null
    /\ fnOut = Null

InitMapIdle ==
    /\ points = <<>>
    /\ startTime = T0
    /\ speedMph = 30
    /\ scores = <<>>
    /\ selectedScore = Null
    /\ loading = FALSE
    /\ showTimes = FALSE
    /\ showFeedback = FALSE
    /\ lastAlert = NoAlert
    /\ alertTick = 0
    /\ scoreReqs = {}
    /\ reqCount = 0
    /\ scoreDone = {}

InitApiIdle ==
    /\ session = Null
    /\ apiCalls = {}
    /\ apiCount = 0
    /\ apiDone = Null

\* scoreToColor, its three copies applied to two scores
ColorScores == { k * (FP \div 2) : k \in (-10)..(2 * MaxColorScore) }

applyScoreToColor ==
    /\ fnOut = Null
    /\ fnOut' = Some([ native |-> <<scoreToColor(fnIn[1].s1), scoreToColor(fnIn[1].s2)>>,
                       web |-> <<scoreToColorWeb(fnIn[1].s1), scoreToColorWeb(fnIn[1].s2)>>,
                       card |-> <<scoreToColorCard(fnIn[1].s1), scoreToColorCard(fnIn[1].s2)>> ])
    /\ UNCHANGED <<fnIn, mapVars, apiVars, focusVars, screenVars>>

InitColor ==
    /\ fnIn \in { Some([s1 |-> a, s2 |-> b]) : a \in ColorScores, b \in ColorScores }
    /\ fnOut = Null
    /\ InitMapIdle /\ InitApiIdle /\ InitFocus /\ InitScreens

SpecColor == InitColor /\ [][applyScoreToColor]_vars

\* haversineNm, applied to two points both ways and to a point and itself
GeoPoints == { [lat |-> la, lon |-> lo] :
                 la \in {-90, -30, 0, 30, 31, 90}, lo \in {-180, -89, -88, 0, 90, 180} }

applyHaversine ==
    /\ fnOut = Null
    /\ fnOut' = Some([ ab |-> haversineNm(fnIn[1].a, fnIn[1].b),
                       ba |-> haversineNm(fnIn[1].b, fnIn[1].a),
                       aa |-> haversineNm(fnIn[1].a, fnIn[1].a) ])
    /\ UNCHANGED <<fnIn, mapVars, apiVars, focusVars, screenVars>>

InitGeo ==
    /\ fnIn \in { Some([a |-> a, b |-> b]) : a \in GeoPoints, b \in GeoPoints }
    /\ fnOut = Null
    /\ InitMapIdle /\ InitApiIdle /\ InitFocus /\ InitScreens

SpecGeo == InitGeo /\ [][applyHaversine]_vars

\* buildScoreSegments, applied to a list of scores
SegScoreOuts ==
    { [lat |-> 30, lon |-> -89, score_0_100 |-> 0],
      [lat |-> 30, lon |-> -88, score_0_100 |-> 45],
      [lat |-> 31, lon |-> -88, score_0_100 |-> 100],
      [lat |-> 29, lon |-> -90, score_0_100 |-> 110] }
SegScoreLists == UNION { [1..n -> SegScoreOuts] : n \in 0..MaxSegScores }

applyBuildScoreSegments ==
    /\ fnOut = Null
    /\ fnOut' = Some([ native |-> buildScoreSegments(<<>>, fnIn[1]),
                       web |-> webScoreSegments(fnIn[1]) ])
    /\ UNCHANGED <<fnIn, mapVars, apiVars, focusVars, screenVars>>

InitSegments ==
    /\ fnIn \in { Some(sc) : sc \in SegScoreLists }
    /\ fnOut = Null
    /\ InitMapIdle /\ InitApiIdle /\ InitFocus /\ InitScreens

SpecSegments == InitSegments /\ [][applyBuildScoreSegments]_vars

\* ========================================================= specifications
\* the Map screen as rendered: every handler behind the control that calls it
Init == InitMap /\ InitApiIdle /\ InitFocus /\ InitFn /\ InitScreens

Next ==
    \/ \E p \in TapPoints : handleAddPoint(p)
    \/ handleUndo
    \/ handleClear
    \/ toggleShowTimes
    \/ \E v \in StartTimes : setStartTime(v)
    \/ \E v \in Speeds : setSpeedMph(v)
    \/ pressScore
    \/ scoreRouteSettles
    \/ \E i \in 0..(MaxScores - 1) : selectScore(i)
    \/ dismissScoreCard
    \/ dismissFeedback

Spec == Init /\ [][Next]_vars

\* handleScore called directly in any state of its inputs the screen can hold
\* (the rendered Score button is disabled unless canScore, which keeps the
\* handler's own early returns from running)
InitHandler ==
    /\ points \in UNION { [1..n -> TapPoints] : n \in 0..MaxPoints }
    /\ startTime \in StartTimes
    /\ speedMph \in Speeds
    /\ scores = <<>>
    /\ selectedScore = Null
    /\ loading = FALSE
    /\ showTimes = FALSE
    /\ showFeedback = FALSE
    /\ lastAlert = NoAlert
    /\ alertTick = 0
    /\ scoreReqs = {}
    /\ reqCount = 0
    /\ scoreDone = {}
    /\ InitApiIdle /\ InitFocus /\ InitFn /\ InitScreens

NextHandler ==
    \/ handleScore
    \/ scoreRouteSettles

SpecHandler == InitHandler /\ [][NextHandler]_vars

\* the API client under sign-in, sign-out and concurrent calls
InitClient == InitMapIdle /\ InitApi /\ InitFocus /\ InitFn /\ InitScreens

SpecApi == InitClient /\ [][NextApi]_vars

\* tab focus changes with the Profile and Saved Routes loads
InitTabs == InitMapIdle /\ InitApiIdle /\ InitFocus /\ InitFn /\ InitScreens

SpecFocus == InitTabs /\ [][NextFocus]_vars

\* the Map screen's boat picker, up to the scoring request of the route the
\* screen was opened with
InitBoat ==
    /\ InitMap /\ points = <<PA, PB>>
    /\ InitApiIdle /\ InitFocus /\ InitFn /\ InitScreens

NextBoat ==
    \/ handleOpenBoatPicker
    \/ boatLoadSettles
    \/ \E b \in {B1, B2, P1, P2} : handlePickBoat(b)
    \/ cancelBoatPicker
    \/ pressScore

SpecBoat == InitBoat /\ [][NextBoat]_vars

\* the Profile screen's Save, Sign Out and Delete Account buttons, signed in
InitAccount ==
    /\ InitMapIdle /\ InitFocus /\ InitFn /\ InitScreens
    /\ session = Some([access_token |-> "tokA"])
    /\ apiCalls = {}
    /\ apiCount = 0
    /\ apiDone = Null

NextAccount ==
    \/ handleDeleteAccount
    \/ cancelDeleteAccount
    \/ doDelete
    \/ handleSignOut
    \/ handleSave
    \/ accountOpSettles
    \/ updateProfileSettles

SpecAccount == InitAccount /\ [][NextAccount]_vars

\* the Boats tab and the Routes tab, each entered from the Home tab: the loads
\* on focus, pull to refresh, deletions and preset additions
InitLists == InitMapIdle /\ InitApiIdle /\ InitFocus /\ InitFn /\ InitScreens

NextLists ==
    \/ focused = "Home" /\ focusBoats
    \/ focused = "Home" /\ focusRoutes
    \/ onRefreshBoats
    \/ boatLoadSettles
    \/ loadSettles
    \/ \E b \in Elems(myBoats) : handleDeleteBoat(b)
    \/ \E r \in {"route1", "route2"} : handleDeleteRoute(r)
    \/ confirmCancel
    \/ confirmDelete
    \/ \E p \in {P1, P2} : handleAddPreset(p)
    \/ listOpSettles

SpecLists == InitLists /\ [][NextLists]_vars

\* the three screens that load the boats
InitBoatLoads == InitBoat

NextBoatLoads ==
    \/ handleOpenBoatPicker
    \/ focusBoats
    \/ focusHome
    \/ focusBoatSetup
    \/ boatLoadSettles

SpecBoatLoads == InitBoatLoads /\ [][NextBoatLoads]_vars

\* the mounted Map screen: the two mount effects, route edits, nearby reports
InitRegion ==
    /\ InitMap /\ InitApiIdle /\ InitFocus /\ InitFn /\ InitBesidesMount
    /\ InitMount

NextRegion ==
    \/ homeLoaded
    \/ locationFound
    \/ \E p \in TapPoints : tapMap(p)
    \/ pressUndo
    \/ pressClear
    \/ nearbyReportsSettles

SpecRegion == InitRegion /\ [][NextRegion]_vars

\* handleCreateReport called in any state of the mounted Map screen
NextReport ==
    \/ locationFound
    \/ \E p \in TapPoints : tapMap(p)
    \/ openReportModal
    \/ cancelReportModal
    \/ handleCreateReport
    \/ freshPositionSettles
    \/ createReportSettles
    \/ refreshSettles

SpecReport == InitRegion /\ [][NextReport]_vars

\* the departure time: the Times toggle, the quick buttons, the date-time modal
InitTimePicker == InitMap /\ InitApiIdle /\ InitFocus /\ InitFn /\ InitScreens

NextTimePicker ==
    \/ toggleTimePicker
    \/ \E v \in {T0, <<1, 7, 0>>} : quickStart(v)
    \/ openPicker
    \/ \E d \in CalendarDays : handleDateSelect(d)
    \/ \E h \in WheelHours : selectHour(h)
    \/ \E mi \in WheelMinutes : selectMinute(mi \div 5)
    \/ cancelPicker
    \/ handleConfirm

SpecTimePicker == InitTimePicker /\ [][NextTimePicker]_vars

\* ================================================================== properties

\* C1: handleScore sends a POST /score-route request only when the route has at
\* least 2 points, the departure time is non-empty and the speed is above 0; when
\* one of these fails, the step shows the alert of a failing condition, sends no
\* request, and leaves points, scores, selectedScore and loading unchanged.
C1_ValidationGuardsRequest ==
    [][ LET valid == Len(points) >= 2 /\ Len(startTime) > 0 /\ speedMph > 0
            alerts ==
              (IF Len(points) < 2
               THEN {<<"Need at least 2 points", "Tap the map to add route points.">>}
               ELSE {})
              \cup (IF Len(startTime) = 0
                    THEN {<<"Set departure", "Enter a departure time for the trip.">>}
                    ELSE {})
              \cup (IF speedMph <= 0
                    THEN {<<"Set speed", "Enter a speed greater than 0.">>}
                    ELSE {})
        IN  /\ (scoreReqs' \ scoreReqs # {}) =>
                 /\ valid
                 /\ \A r \in scoreReqs' \ scoreReqs :
                      /\ r.body.route = points
                      /\ r.body.start_time = startTime
            /\ ~valid =>
                 /\ scoreReqs' = scoreReqs
                 /\ reqCount' = reqCount
                 /\ alertTick' # alertTick
                 /\ lastAlert' \in alerts
                 /\ UNCHANGED <<points, scores, selectedScore, loading>>
      ]_vars

C1_AlertShownNothingSent ==
    /\ lastAlert[1] = "Set speed"
    /\ Len(points) >= 2
    /\ Len(startTime) > 0
    /\ scoreReqs = {}
    /\ reqCount = 0
    /\ ~loading

\* C2: when the /score-route request of handleScore fails, the step that handles
\* the failure shows the 'Scoring failed' alert, sends no request (a request is
\* only ever sent by a step that settles none), finds scores empty and
\* selectedScore null and leaves them so, and sets loading to false.
C2_FailureHandled ==
    [][ /\ (\E r \in scoreReqs : <<r.id, "rejected">> \in scoreDone' \ scoreDone) =>
              /\ lastAlert'[1] = "Scoring failed"
              /\ alertTick' # alertTick
              /\ scoreReqs' \subseteq scoreReqs
              /\ reqCount' = reqCount
              /\ scores = <<>> /\ scores' = <<>>
              /\ selectedScore = Null /\ selectedScore' = Null
              /\ loading /\ ~loading'
        /\ (scoreReqs' \ scoreReqs # {}) => scoreDone' = scoreDone
      ]_vars

C2_FailedAndIdle ==
    /\ lastAlert[1] = "Scoring failed"
    /\ \E id \in 1..MaxRequests : <<id, "rejected">> \in scoreDone
    /\ scoreReqs = {}
    /\ scores = <<>>
    /\ selectedScore = Null
    /\ ~loading

\* C6: the sample_every_minutes of every /score-route request is
\* max(1, min(60, floor(durationMinutes / (points - 1)))) with durationMinutes =
\* 60 * routeDistanceMiles(points) / speedMph, hence an integer in 1..60.
\* With num / den = durationMinutes / (points - 1), distance in tenths of a mile.
C6_SampleEveryMinutes ==
    \A r \in scoreReqs :
        LET m == r.body.sample_every_minutes
            num == 60 * routeDistanceMiles(r.body.route)
            den == 10 * r.speedMph * (Len(r.body.route) - 1)
        IN  /\ Len(r.body.route) >= 2
            /\ r.speedMph > 0
            /\ m \in 1..60
            /\ \/ m = 1 /\ num < 2 * den
               \/ m = 60 /\ num >= 60 * den
               \/ m * den <= num /\ num < (m + 1) * den

C6_IntervalStrictlyInside ==
    \E r \in scoreReqs :
        /\ r.body.sample_every_minutes > 1
        /\ r.body.sample_every_minutes < 60
        /\ Len(r.body.route) = 3

\* C7: scores becomes non-empty only in the step that handles a fulfilled
\* /score-route response, to a request whose route, departure and speed passed
\* validation; score segments and score markers are drawn only while scores are
\* held, and only after a scoring request has been fulfilled.
C7_ScoresOnlyFromScoring ==
    /\ [](( \/ buildScoreSegments(points, scores) # <<>>
            \/ webScoreSegments(scores) # <<>>
            \/ scoreMarkers(scores) # <<>> ) =>
             /\ Len(scores) > 0
             /\ \E id \in 1..reqCount : <<id, "fulfilled">> \in scoreDone)
    /\ [][ (Len(scores) = 0 /\ Len(scores') > 0) =>
             \E r \in scoreReqs :
                /\ scoreReqs' = scoreReqs \ {r}
                /\ <<r.id, "fulfilled">> \in scoreDone' \ scoreDone
                /\ Len(r.body.route) >= 2
                /\ Len(r.body.start_time) > 0
                /\ r.speedMph > 0
         ]_vars

C7_OverlayAfterScoring ==
    /\ buildScoreSegments(points, scores) # <<>>
    /\ scoreMarkers(scores) # <<>>
    /\ \E id \in 1..reqCount : <<id, "fulfilled">> \in scoreDone
    /\ ~loading

\* C3 as stated: every network operation a screen starts is issued once per UI
\* event and settles with no retry and no cancellation, and the result of every
\* operation is handled by the screen that started it, whatever UI event came
\* after the start.
C3_EveryResultHandled ==
    [][ /\ \A e \in opLog' \ opLog :
             \E o \in netOps :
               /\ o.id = e.id
               /\ netOps' = netOps \ {o}
               /\ opCount' = opCount
               /\ e.kind = "getRoutes" =>
                    /\ ~routesLoading'
                    /\ e.outcome.status = "fulfilled" => routes' = e.outcome.value
               /\ e.kind = "getProfile" =>
                    /\ ~profLoading'
                    /\ e.outcome.status = "fulfilled" => profile' = Some(e.outcome.value)
        /\ LET started == { o.id : o \in netOps' } \ { o.id : o \in netOps }
           IN  started # {} =>
                 /\ focused' # focused
                 /\ Cardinality(started) = 1
                 /\ opCount' = opCount + 1
      ]_vars

\* C3, corrected: every network operation a screen starts is issued once per UI
\* event and settles with no retry; an operation leaves flight only by settling;
\* the result is handled by the screen that started it, except that
\* ProfileScreen drops the result of its profile load, and leaves its loading
\* flag as it was, when the screen lost focus before the load settled.
C3_ResultHandledUnlessProfileBlurred ==
    [][ /\ \A e \in opLog' \ opLog :
             \E o \in netOps :
               /\ o.id = e.id
               /\ netOps' = netOps \ {o}
               /\ opCount' = opCount
               /\ e.kind = "getRoutes" =>
                    /\ ~routesLoading'
                    /\ e.outcome.status = "fulfilled" => routes' = e.outcome.value
               /\ (e.kind = "getProfile" /\ o.active) =>
                    /\ ~profLoading'
                    /\ e.outcome.status = "fulfilled" => profile' = Some(e.outcome.value)
               /\ (e.kind = "getProfile" /\ ~o.active) =>
                    UNCHANGED <<profile, profLoading>>
        /\ LET started == { o.id : o \in netOps' } \ { o.id : o \in netOps }
           IN  started # {} =>
                 /\ focused' # focused
                 /\ Cardinality(started) = 1
                 /\ opCount' = opCount + 1
        /\ \A o \in netOps :
             /\ (\A o2 \in netOps' : o2.id # o.id) => \E e \in opLog' \ opLog : e.id = o.id
             /\ (o.active /\ [o EXCEPT !.active = FALSE] \in netOps') =>
                  (o.kind = "getProfile" /\ focused = "Profile" /\ focused' # "Profile")
             /\ ~o.active => o.kind = "getProfile"
      ]_vars

C3_ProfileResultDropped ==
    /\ \E e \in opLog : e.kind = "getProfile" /\ e.outcome.status = "fulfilled"
    /\ netOps = {}
    /\ profile = Null
    /\ profLoading

\* C4: authFetch builds its headers from the session it reads in that call: the
\* request carries 'Authorization: Bearer <access_token>' exactly when that
\* session has an access token, the token it carries is that session's, and a
\* request made with no session carries no Authorization header.
C4_BearerOfSessionAtCall ==
    \A c \in apiCalls :
        LET auth == { h \in c.headers : h[1] = "Authorization" }
        IN  /\ (c.pc = "getSession" \/ c.fn = "healthCheck") => c.headers = {}
            /\ (c.pc = "fetch" /\ c.fn # "healthCheck") =>
                 /\ <<"Content-Type", "application/json">> \in c.headers
                 /\ c.sessionAtFetch = Null => auth = {}
                 /\ c.sessionAtFetch # Null =>
                      auth = {<<"Authorization", "Bearer " \o c.sessionAtFetch[1].access_token>>}

C4_TokenOfEarlierSession ==
    \E c \in apiCalls :
        /\ c.pc = "fetch"
        /\ <<"Authorization", "Bearer tokB">> \in c.headers
        /\ session = Some([access_token |-> "tokA"])
        /\ apiDone # Null

\* C5 as stated: every client function built on authFetch either returns the
\* body of an ok response or throws an Error with message 'API <status>: <body
\* text>'; healthCheck never throws and returns false on a network failure.
C5_ReturnsOrThrowsApiError ==
    apiDone # Null =>
        LET d == apiDone[1]
        IN  IF d.fn = "healthCheck"
            THEN /\ d.outcome.kind = "return"
                 /\ d.response.kind = "network_error" => d.outcome.value = FALSE
            ELSE \/ /\ d.outcome.kind = "return"
                    /\ d.response.kind = "response"
                    /\ d.response.status \in 200..299
                 \/ /\ d.outcome.kind = "throw"
                    /\ d.response.kind = "response"
                    /\ d.outcome.message =
                         "API " \o ToString(d.response.status) \o ": " \o d.response.text

\* C5, corrected: a client function built on authFetch returns only for an ok
\* response (its parsed body, for the functions that read it); for a non-ok
\* response it throws 'API <status>: <body text>'; when the fetch itself fails
\* it throws the fetch's error, and when an ok body is not JSON a function that
\* reads it throws the parser's error. healthCheck never throws: false on a
\* network failure, else the response's ok flag.
C5_ReturnsOkOrThrows ==
    apiDone # Null =>
        LET d == apiDone[1]
            isOk == d.response.kind = "response" /\ d.response.status \in 200..299
        IN  IF d.fn = "healthCheck"
            THEN /\ d.outcome.kind = "return"
                 /\ d.outcome.value = isOk
            ELSE /\ d.outcome.kind = "return" =>
                      /\ isOk
                      /\ d.fn \in JsonFns =>
                           /\ d.response.text = "[]"
                           /\ d.outcome.value = <<>>
                 /\ (d.response.kind = "response" /\ ~isOk) =>
                      /\ d.outcome.kind = "throw"
                      /\ d.outcome.message =
                           "API " \o ToString(d.response.status) \o ": " \o d.response.text
                 /\ d.response.kind = "network_error" =>
                      /\ d.outcome.kind = "throw"
                      /\ d.outcome.message = d.response.message
                 /\ (isOk /\ d.outcome.kind = "throw") =>
                      /\ d.fn \in JsonFns
                      /\ d.response.text # "[]"
                      /\ d.outcome.message = "JSON Parse error: Unexpected token"

C5_NetworkErrorPropagates ==
    /\ apiDone # Null
    /\ apiDone[1].fn = "getBoats"
    /\ apiDone[1].response.kind = "network_error"
    /\ apiDone[1].outcome = [kind |-> "throw", message |-> "Network request failed"]

\* C8: scoreToColor returns hue = 120 * clamp(score, 0, 100) / 100: hue 0 at and
\* below score 0, hue 120 at and above score 100, never decreasing in the score;
\* the native map's, the web map's and the score card's copies return the same.
C8_HueClampedMonotone ==
    fnOut # Null =>
        LET s1 == fnIn[1].s1
            s2 == fnIn[1].s2
            c1 == fnOut[1].native[1]
            c2 == fnOut[1].native[2]
        IN  /\ c1[2] * 100 = 120 * Max(0, Min(100 * FP, s1))
            /\ c1[1] = "hsl" /\ c1[3] = 85 /\ c1[4] = 48
            /\ s1 <= 0 => c1[2] = 0
            /\ s1 >= 100 * FP => c1[2] = 120 * FP
            /\ s1 <= s2 => c1[2] <= c2[2]
            /\ fnOut[1].web = fnOut[1].native
            /\ fnOut[1].card = fnOut[1].native

C8_OutOfRangeScores ==
    /\ fnOut # Null
    /\ fnIn[1].s1 < 0
    /\ fnIn[1].s2 > 100 * FP
    /\ fnOut[1].card[1][2] = 0
    /\ fnOut[1].web[2][2] = 120 * FP

\* C9: haversineNm(a, b) = haversineNm(b, a) for every two points, and
\* haversineNm(a, a) = 0.
C9_HaversineSymmetric ==
    fnOut # Null =>
        /\ fnOut[1].ab = fnOut[1].ba
        /\ fnOut[1].aa = 0

C9_DistinctPointsApart ==
    /\ fnOut # Null
    /\ fnIn[1].a.lat # fnIn[1].b.lat
    /\ fnIn[1].a.lon # fnIn[1].b.lon
    /\ fnOut[1].ab > 0
    /\ fnOut[1].ba > 0

\* C10: buildScoreSegments returns nothing for fewer than 2 scores and
\* 8 * (n - 1) sub-segments for n >= 2; each starts where the one before ends,
\* the first starts at scores[0], the last ends at scores[n-1], and each has the
\* colour scoreToColor gives the score interpolated at its midpoint; the web
\* map draws the same sub-segments.
C10_GradientSegments ==
    fnOut # Null =>
        LET sc == fnIn[1]
            n == Len(sc)
            segs == fnOut[1].native
            pos(o) == [latitude |-> o.lat * FP, longitude |-> o.lon * FP]
        IN  /\ n < 2 => segs = <<>>
            /\ n >= 2 =>
                 /\ Len(segs) = 8 * (n - 1)
                 /\ segs[1].coords[1] = pos(sc[1])
                 /\ segs[Len(segs)].coords[2] = pos(sc[n])
                 /\ \A k \in 1..(Len(segs) - 1) : segs[k].coords[2] = segs[k + 1].coords[1]
                 /\ \A k \in 1..Len(segs) :
                      LET a == sc[((k - 1) \div 8) + 1]
                          b == sc[((k - 1) \div 8) + 2]
                          step == (k - 1) % 8
                          mid == a.score_0_100 * FP
                                 + ((b.score_0_100 - a.score_0_100) * FP * (2 * step + 1)) \div 16
                      IN  segs[k].color = scoreToColor(mid)
            /\ fnOut[1].web = segs

C10_TwoLegsSixteenSegments ==
    /\ fnOut # Null
    /\ Len(fnIn[1]) = 3
    /\ Len(fnOut[1].native) = 16
    /\ fnIn[1][1].score_0_100 # fnIn[1][2].score_0_100
    /\ fnOut[1].native[1].color # fnOut[1].native[8].color

\* C11: the boat of a /score-route request is the Map screen's current boat,
\* which is boatToProfile of the boat picked last in the boat picker (its name,
\* length_ft, beam_ft, draft_ft, comfort_bias, max_safe_wind_kt and
\* max_safe_wave_ft, unchanged) or the boat of the navigation parameters when
\* none was picked; opening or cancelling the picker leaves the boat as it is.
C11_RequestCarriesChosenBoat ==
    /\ [](currentBoat =
            IF pickedBoat = Null THEN InitialBoat
            ELSE LET b == pickedBoat[1]
                 IN  [ name |-> b.name, length_ft |-> b.length_ft, beam_ft |-> b.beam_ft,
                       draft_ft |-> b.draft_ft, comfort_bias |-> b.comfort_bias,
                       max_safe_wind_kt |-> b.max_safe_wind_kt,
                       max_safe_wave_ft |-> b.max_safe_wave_ft ])
    /\ [][ /\ \A r \in scoreReqs' \ scoreReqs : r.body.boat = currentBoat
           /\ (showBoatModal' # showBoatModal /\ pickedBoat' = pickedBoat) =>
                 currentBoat' = currentBoat
         ]_vars

C11_ScoredWithPickedPreset ==
    /\ \E r \in scoreReqs : r.body.boat.name = "Pontoon 24" /\ r.body.boat.comfort_bias = 0
    /\ pickedBoat = Some(P1)
    /\ ~showBoatModal
    /\ currentBoat # InitialBoat

\* C12: handleDeleteAccount calls signOut only once DELETE /profiles/account/me
\* has succeeded; when the delete fails the 'Delete Failed' alert is shown,
\* signOut is not called and deleting returns to false; deleting returns to
\* false when the sign-out after a successful delete has settled, too.
C12_SignOutOnlyAfterDelete ==
    /\ [](deleting <=> \E op \in acctOps : op.from = "doDelete")
    /\ [][ LET settled == acctLog' \ acctLog
           IN  /\ \A op \in acctOps' :
                    (op.from = "doDelete" /\ op.kind = "signOut" /\ op \notin acctOps) =>
                       /\ <<op.id, "deleteAccount", "doDelete", "fulfilled">> \in settled
                       /\ accountDeleted'
                       /\ signOutCalls' = signOutCalls + 1
               /\ \A e \in settled :
                    (e[2] = "deleteAccount" /\ e[4] = "rejected") =>
                       /\ lastAlert'[1] = "Delete Failed"
                       /\ alertTick' # alertTick
                       /\ signOutCalls' = signOutCalls
                       /\ \A op \in acctOps' : op.id # e[1]
                       /\ deleting /\ ~deleting'
                       /\ accountDeleted' = accountDeleted
               /\ \A e \in settled :
                    (e[2] = "signOut" /\ e[3] = "doDelete") => (deleting /\ ~deleting')
         ]_vars

C12_DeletedAndSignedOut ==
    /\ accountDeleted
    /\ session = Null
    /\ ~deleting
    /\ signOutCalls = 1
    /\ \E e \in acctLog : e[2] = "signOut" /\ e[3] = "doDelete" /\ e[4] = "fulfilled"


\* C13: a saved route or a boat leaves the displayed list only after the user
\* confirmed the deletion and the server DELETE for it succeeded: a DELETE is
\* started only by the Delete button of the confirmation opened for that entry;
\* when it succeeds the list becomes the list without the entries of that id;
\* when it fails the list is unchanged and no call is started in its place (the
\* boat list also shows 'Delete Failed'); and an entry disappears from a list
\* only by such a deletion of its id or by a completed reload of the list.
C13_DeletedAfterConfirmedDelete ==
    [][ LET settled == listOps \ listOps'
            started == listOps' \ listOps
            outcome == listDone'
            boatsReloaded ==
                \E l \in boatLoads :
                    l.screen = "BoatList" /\ \A m \in boatLoads' : m.id # l.id
            routesReloaded ==
                \E o \in netOps \ netOps' : o.kind = "getRoutes"
        IN  /\ \A op \in started :
                 op.kind \in {"deleteBoat", "deleteRoute"} =>
                    /\ confirmDlg = Some([kind |-> op.kind, target |-> op.target])
                    /\ confirmDlg' = Null
            /\ (confirmDlg = Null /\ confirmDlg' # Null) =>
                 /\ confirmDlg'[1].kind = "deleteBoat" =>
                       \E b \in Elems(myBoats) : b.id = confirmDlg'[1].target
                 /\ confirmDlg'[1].kind = "deleteRoute" =>
                       confirmDlg'[1].target \in Elems(routes)
                 /\ started = {}
            /\ \A op \in settled :
                 /\ (op.kind = "deleteBoat" /\ outcome = Some("fulfilled")) =>
                       /\ myBoats' = SelectSeq(myBoats, LAMBDA b : b.id # op.target)
                       /\ routes' = routes
                 /\ (op.kind = "deleteRoute" /\ outcome = Some("fulfilled")) =>
                       /\ routes' = SelectSeq(routes, LAMBDA r : r # op.target)
                       /\ myBoats' = myBoats
                 /\ (op.kind \in {"deleteBoat", "deleteRoute"} /\ outcome = Some("rejected")) =>
                       /\ myBoats' = myBoats
                       /\ routes' = routes
                       /\ started = {}
                       /\ listOps' = listOps \ {op}
                       /\ op.kind = "deleteBoat" =>
                             (lastAlert'[1] = "Delete Failed" /\ alertTick' # alertTick)
            /\ \A b \in Elems(myBoats) \ Elems(myBoats') :
                 \/ boatsReloaded
                 \/ \E op \in settled :
                       /\ op.kind = "deleteBoat" /\ op.target = b.id
                       /\ outcome = Some("fulfilled")
            /\ \A r \in Elems(routes) \ Elems(routes') :
                 \/ routesReloaded
                 \/ \E op \in settled :
                       /\ op.kind = "deleteRoute" /\ op.target = r
                       /\ outcome = Some("fulfilled")
      ]_vars

C13_OneRouteDeletedOneLeft ==
    /\ routes = <<"route2">>
    /\ listDone = Some("fulfilled")
    /\ listOps = {}
    /\ confirmDlg = Null

C16_BoatsAndPresetsIndependent ==
    [][ LET mineAfter(l, old, new) ==
                CASE l.mine.status = "fulfilled" -> new = notPreset(l.mine.value)
                  [] l.mine.status = "rejected" -> new = old
                  [] OTHER -> new \in {old} \cup { notPreset(v) : v \in GetBoatsValues }
            presetsAfter(l, old, new) ==
                CASE l.presets.status = "fulfilled" -> new = l.presets.value
                  [] l.presets.status = "rejected" -> new = old
                  [] OTHER -> new \in {old} \cup GetPresetsValues
            settledNow(l) == \A m \in boatLoads' : m.id # l.id
        IN  /\ \A l \in boatLoads :
                 settledNow(l) =>
                    CASE l.screen = "Map" ->
                           /\ mineAfter(l, boatList, boatList')
                           /\ presetsAfter(l, boatPresets, boatPresets')
                           /\ ~boatsLoading'
                      [] l.screen = "BoatList" ->
                           /\ mineAfter(l, myBoats, myBoats')
                           /\ presetsAfter(l, presets, presets')
                           /\ ~boatListLoading' /\ ~refreshing'
                      [] l.screen = "BoatSetup" ->
                           /\ mineAfter(l, setupBoats, setupBoats')
                           /\ presetsAfter(l, setupPresets, setupPresets')
                           /\ ~setupLoading'
            /\ (\A l \in boatLoads : ~settledNow(l)) =>
                 UNCHANGED <<boatList, boatPresets, myBoats, presets, setupBoats,
                             setupPresets>>
      ]_vars

\* the presets request has failed in every load of the picker so far, and yet
\* the user's boats are stored and the picker is no longer loading
C16_BoatsStoredPresetsFailed ==
    /\ showBoatModal /\ ~boatsLoading
    /\ boatList = <<B1, B2>>
    /\ boatPresets = <<>>
    /\ boatLoads = {}

\* C14: the initial region MapScreen gives to the map is the bounding region of
\* the loaded route when a non-empty route was loaded, otherwise the region
\* around the GPS fix when there is one, otherwise the home region of the
\* profile, otherwise undefined.
C14_RouteThenGpsThenHome ==
    initialRegion(routeRegion, homeRegion, locationRegion) =
        IF loadRoute # Null /\ Len(loadRoute[1]) > 0
        THEN regionFromPoints(loadRoute[1])
        ELSE IF locationRegion # Null THEN locationRegion
        ELSE IF homeRegion # Null THEN homeRegion
        ELSE Null

\* no route was loaded, the GPS fix and the home region are both known
C14_GpsAndHomeKnown ==
    /\ routeRegion = Null
    /\ locationRegion = Some(regionAround(31, -88))
    /\ homeRegion = Some(regionAround(29, -90))
    /\ initialRegion(routeRegion, homeRegion, locationRegion) = homeRegion

\* C15: RouteMap moves the map to initialRegion at most once in its lifetime,
\* and only in the step in which a new initialRegion arrives while no route
\* point is placed; every other step, and every step after that move, leaves
\* the map where it is.
C15_RecentredAtMostOnce ==
    /\ [](animations <= 1 /\ (hasAnimated <=> animations = 1)
          /\ (mapView # Null <=> hasAnimated))
    /\ [][ (mapView' # mapView \/ animations' # animations) =>
              /\ ~hasAnimated
              /\ Len(points) = 0
              /\ LET old == initialRegion(routeRegion, homeRegion, locationRegion)
                     new == initialRegion(routeRegion', homeRegion', locationRegion')
                 IN  new # old /\ new # Null /\ mapView' = new
         ]_vars

\* the map was moved to the GPS region; the home region, which then became the
\* initial region, and the route edits after it did not move it again
C15_MovedOnceToGps ==
    /\ mapView = locationRegion /\ locationRegion # Null
    /\ homeRegion # Null
    /\ initialRegion(routeRegion, homeRegion, locationRegion) = homeRegion
    /\ animations = 1
    /\ Len(points) > 0

\* C20: the nearby reports are requested when the number of route points
\* changes or the user location arrives: around the route point at index
\* floor(n/2) when the route is not empty, else around the user location, and
\* not at all when there is neither; no other step requests them; a failed
\* request leaves the displayed reports as they are and a fulfilled one
\* replaces them.
C20_NearbyReportsCentre ==
    [][ LET n == Len(points')
            changed == Len(points') # Len(points) \/ userLocation' # userLocation
            settled == reportReqs \ reportReqs'
        IN  /\ (changed /\ n > 0) => points'[(n \div 2) + 1] \in reportReqs'
            /\ (changed /\ n = 0 /\ userLocation' # Null) => userLocation'[1] \in reportReqs'
            /\ changed => reportReqs' \ reportReqs \subseteq
                             IF n > 0 THEN {points'[(n \div 2) + 1]}
                             ELSE IF userLocation' # Null THEN {userLocation'[1]} ELSE {}
            /\ ~changed => reportReqs' \subseteq reportReqs
            /\ (settled # {} /\ reportsSettled' = Some("rejected")) => reports' = reports
            /\ settled = {} => reports' = reports
      ]_vars

\* a request around the middle point of a three-point route failed after
\* reports had been shown
C20_MiddlePointRequestFailed ==
    /\ Len(points) = 3
    /\ reportReqs = {}
    /\ reportsSettled = Some("rejected")
    /\ reports = <<"report1">>
    /\ userLocation # Null

\* C18: handleCreateReport reports at the fresh GPS position when it got one,
\* else at the user location cached when it was called, else at the middle
\* point of the route; when there is none of them it shows 'No location' and
\* sends no POST /reports; and creatingReport is true exactly while the handler
\* is under way, so it is false again after every way the handler ends.
C18_ReportLocationOrder ==
    /\ [](/\ creatingReport <=> reportOp # Null
          /\ (reportOp # Null /\ reportOp[1].stage # "position") =>
                LET op == reportOp[1]
                IN  op.loc =
                      IF op.fresh # Null THEN op.fresh
                      ELSE IF op.cached # Null THEN op.cached
                      ELSE Some(op.pts[(Len(op.pts) \div 2) + 1]))
    /\ [][ (reportOp # Null /\ reportOp[1].stage = "position" /\ reportOp' # reportOp) =>
              LET op == reportOp[1]
              IN  IF op.cached = Null /\ Len(op.pts) = 0 /\ reportOp' = Null
                  THEN /\ lastAlert'[1] = "No location" /\ alertTick' # alertTick
                       /\ ~creatingReport'
                  ELSE /\ reportOp' # Null /\ reportOp'[1].stage = "createReport"
                       /\ reportOp'[1].cached = op.cached /\ reportOp'[1].pts = op.pts
                       /\ UNCHANGED <<lastAlert, alertTick>>
         ]_vars
    /\ [][ (reportOp # Null /\ reportOp' = Null) => (creatingReport /\ ~creatingReport')
         ]_vars

\* no position at all: the alert is up, nothing was sent, the flag is down
C18_NoLocationAlert ==
    /\ lastAlert[1] = "No location"
    /\ reportOp = Null /\ ~creatingReport
    /\ userLocation = Null /\ Len(points) = 0

\* C19: every time the date-time modal becomes visible its selectedDate, hour
\* and minute are those of value (the minute rounded to five), whatever was
\* edited and abandoned before; Cancel closes the modal without calling
\* onConfirm; Confirm calls onConfirm once, with the selected day at the
\* selected hour and minute and 0 seconds, and the start time becomes that.
C19_ResetOnOpenConfirmOnce ==
    [][ LET value == IF Len(startTime) = 0 THEN Now
                     ELSE [day |-> startTime[1], hour |-> startTime[2],
                           minute |-> startTime[3], second |-> 0]
        IN  /\ (~showPicker /\ showPicker') =>
                 /\ selectedDate' = value
                 /\ hour' = value.hour
                 /\ minute' = 5 * ((value.minute + 2) \div 5)
                 /\ confirmTick' = confirmTick
            /\ (showPicker /\ ~showPicker' /\ confirmTick' = confirmTick) =>
                 /\ lastConfirm' = lastConfirm
                 /\ startTime' = startTime
            /\ confirmTick' # confirmTick =>
                 /\ showPicker /\ ~showPicker'
                 /\ lastConfirm' = Some([day |-> selectedDate.day, hour |-> hour,
                                         minute |-> minute, second |-> 0])
                 /\ startTime' = <<selectedDate.day, hour, minute>>
            /\ lastConfirm' # lastConfirm => confirmTick' # confirmTick
      ]_vars

\* the modal is open again on the value confirmed before: tomorrow, 23:55
C19_ReopenedOnConfirmedValue ==
    /\ showPicker
    /\ lastConfirm = Some(DateOf(1, 23, 55, 0))
    /\ startTime = <<1, 23, 55>>
    /\ selectedDate = DateOf(1, 23, 55, 0) /\ hour = 23 /\ minute = 55
\* C21: in every reachable state of MapScreen exactly one of the three bottom
\* panels is displayed: the score bar, the score card or the feedback prompt.
C21_ExactlyOnePanel ==
    /\ scoreBarShown \/ scoreCardShown \/ feedbackShown
    /\ ~(scoreBarShown /\ scoreCardShown)
    /\ ~(scoreBarShown /\ feedbackShown)
    /\ ~(scoreCardShown /\ feedbackShown)

\* Undo was pressed while the feedback prompt was up: showFeedback is still
\* true over an empty scores list and none of the three panels is rendered
C21_NoPanelAfterUndo ==
    /\ showFeedback
    /\ scores = <<>>
    /\ selectedScore = Null
    /\ ~loading
    /\ ~scoreBarShown /\ ~scoreCardShown /\ ~feedbackShown

\* C22: whenever MapScreen's scores list is non-empty it is the response to the
\* scoring request issued for the current points list. Stated on steps: the
\* step that stores a non-empty response settles a request whose route is the
\* points list of that moment, a non-empty scores list only appears with such
\* a step, and every step that changes the points list empties scores.
C22_ScoresAreOfCurrentRoute ==
    [][ /\ \A r \in scoreReqs \ scoreReqs' :
              scores' # <<>> => r.body.route = points'
        /\ (scores' # <<>> /\ scores' # scores) => scoreReqs' # scoreReqs
        /\ (points' # points /\ scoreReqs' = scoreReqs) => scores' = <<>>
      ]_vars

\* a point was added, undone or cleared while the scoring request was in
\* flight: the request carries a route that is no longer the points list
C22_RouteChangedInFlight ==
    /\ loading
    /\ scores = <<>>
    /\ \E r \in scoreReqs : r.body.route # points

=============================================================================
